---------------------------- MODULE Spec2Model ----------------------------
(***************************************************************************)
(* A model of path_tag_fs: the block image (block_io.rs), the write-through *)
(* block cache with its free-space bitmap (block_cache.rs) and the file     *)
(* system engine on top of it (path_tag_fs.rs).                             *)
(*                                                                          *)
(* Representation.  A [u8; BLOCK_SIZE] array is a function from the offsets *)
(* of its non-zero bytes to those bytes (an absent offset reads 0).  The    *)
(* image file is a function from the numbers of its non-zero blocks to such *)
(* arrays (an absent block reads as BLOCK_SIZE zero bytes, which is also    *)
(* what a read past the end of the file leaves in the zeroed buffer).       *)
(* Integers are those of the model checker: a u64 of 2^31 - 1 or more, which *)
(* only arises when the bytes of one block kind are decoded as another kind, *)
(* reads as WIDE = 2^31 - 1.                                                 *)
(* Rust vectors and arrays are indexed from 0, TLA+ sequences from 1.       *)
(***************************************************************************)
EXTENDS Integers, Sequences, FiniteSets, TLC

\* path_tag_fs.rs:32
BLOCK_SIZE == 2048

\* block_cache.rs:10
FSINFO_BLOCK == 2

\* block_cache.rs:185, the byte range find_free_block scans in a bitmap block
SCAN_BYTES == 512

\* The number of reserved tag-root blocks (path_tag_fs::TAGS, design value 16)
TAGS == 16

\* nodes::ENTRY_SIZE, the size of a directory entry slot
ENTRY_SIZE == 256

\* nodes::MAX_ENTRIES, E = B/256 entries per DirectoryBlock
MAX_ENTRIES == 8

\* The number of data slots of an IndexBlock, block_io.rs:377
INDEX_SLOTS == BLOCK_SIZE \div 8 - 1

VARIABLES
    bitmap,     \* BlockCache.bitmap: sequence of byte arrays
    tags,       \* BlockCache.tags: sequence of EntryBlocks
    blocks,     \* BlockCache.blocks: block number -> AnyBlock
    disk,       \* the image file behind BlockIo
    st,         \* "run"; "panic" after a panic; "hang" in a loop that never ends
    now,        \* SystemTime::now(), in nanoseconds
    fsSize,     \* the size the image was formatted with (0: not formatted)
    allocs,     \* history: the numbers allocate_block has returned
    last,       \* history: the last operation, its inputs and its result
    snap,       \* history: the resident blocks when flush() last returned
    wrote,      \* history: block number -> the block last given to write_block
    steps,      \* history: how many operations of each sort were made
    nodes,      \* the adapter of main.rs: PathTagFs.nodes, inode -> FsNode
    next_node,  \* the adapter of main.rs: PathTagFs.next_node
    storage,    \* the adapter of main.rs: PathTagFs.storage, a NodeStorage
    next_file_handle   \* the adapter of main.rs: PathTagFs.next_file_handle

vars == <<bitmap, tags, blocks, disk, st, now, fsSize, allocs, last, snap, wrote, steps,
          nodes, next_node, storage, next_file_handle>>

---------------------------------------------------------------------------
(* Bytes and integers *)

Min(S) == CHOOSE x \in S : \A y \in S : x <= y

\* [0; BLOCK_SIZE]
Zeroes == [o \in {} |-> 0]

Byte(d, o) == IF o \in DOMAIN d THEN d[o] ELSE 0

\* The array holding f(o) at every offset o of S, and 0 elsewhere.
Arr(S, f(_)) == [o \in {x \in S : f(x) # 0} |-> f(o)]

\* body(v) for v the value of e: a let binding whose value is computed once
Let(e, body(_)) == CHOOSE r \in {body(v) : v \in {e}} : TRUE

\* Every u64 and u32 of 2^31 - 1 or more
WIDE == 127 * 16777216 + 16777215

\* Byte i of u64::to_le_bytes(v), block_io.rs:121-132 (and 111-118 for u32)
LE(v, i) == IF i >= 4 THEN 0 ELSE (v \div (256 ^ i)) % 256

\* u64::from_le_bytes of the 8 bytes at off, block_io.rs:176-181
to_u64(d, off) ==
    LET b(i) == Byte(d, off + i)
    IN  IF b(4) = 0 /\ b(5) = 0 /\ b(6) = 0 /\ b(7) = 0 /\ b(3) < 128
        THEN b(0) + 256 * b(1) + 65536 * b(2) + 16777216 * b(3)
        ELSE WIDE

\* u32::from_le_bytes of the 4 bytes at off, block_io.rs:184-189
to_u32(d, off) ==
    LET b(i) == Byte(d, off + i)
    IN  IF b(3) < 128
        THEN b(0) + 256 * b(1) + 65536 * b(2) + 16777216 * b(3)
        ELSE WIDE

---------------------------------------------------------------------------
(* The free-space bitmap, block_cache.rs:145-208 *)

calculate_bit_addr(bit_no) ==
    LET bm_block == bit_no \div (BLOCK_SIZE * 8)
        bm_byte == (bit_no - bm_block * BLOCK_SIZE * 8) \div 8
        bm_bit == bit_no % 8
    IN  <<bm_block, bm_byte, bm_bit>>

BitOf(byte, bit) == (byte \div (2 ^ bit)) % 2 = 1

\* data[bit_addr.1] |= 1 << bit_addr.2
take_block(bm, bit_no) ==
    LET bit_addr == calculate_bit_addr(bit_no)
        db == bm[bit_addr[1] + 1]
        old == Byte(db, bit_addr[2])
        new == IF BitOf(old, bit_addr[3]) THEN old ELSE old + 2 ^ bit_addr[3]
    IN  [bm EXCEPT ![bit_addr[1] + 1] =
            [o \in DOMAIN db \cup {bit_addr[2]} |->
                IF o = bit_addr[2] THEN new ELSE db[o]]]

get_bitmap_bit(bm, bit_no) ==
    LET bit_addr == calculate_bit_addr(bit_no)
    IN  BitOf(Byte(bm[bit_addr[1] + 1], bit_addr[2]), bit_addr[3])

\* The first zero bit among the first SCAN_BYTES bytes of the bitmap blocks, in
\* ascending block, byte and bit order; 0 when those bytes are all 255.
find_free_block(bm) ==
    LET open(n) == \E b \in 0 .. SCAN_BYTES - 1 : Byte(bm[n + 1], b) # 255
        cand == {n \in 0 .. Len(bm) - 1 : open(n)}
    IN  IF cand = {} THEN 0
        ELSE LET n == Min(cand)
                 b == CHOOSE b \in 0 .. SCAN_BYTES - 1 :
                        /\ Byte(bm[n + 1], b) # 255
                        /\ \A c \in 0 .. b - 1 : Byte(bm[n + 1], c) = 255
                 bit_start == n * BLOCK_SIZE * 8 + b * 8
             IN  CHOOSE k \in bit_start .. bit_start + 7 :
                    /\ ~get_bitmap_bit(bm, k)
                    /\ \A j \in bit_start .. k - 1 : get_bitmap_bit(bm, j)

\* The set of the bit numbers that are set in the bitmap.
SetBits(bm) ==
    UNION {{(n - 1) * BLOCK_SIZE * 8 + o * 8 + i : i \in {j \in 0 .. 7 : BitOf(bm[n][o], j)}} :
            <<n, o>> \in UNION {{<<m, p>> : p \in DOMAIN bm[m]} : m \in 1 .. Len(bm)}}

---------------------------------------------------------------------------
(* The block kinds (nodes.rs) and their on-disk layout (block_io.rs) *)

FileTypes == {"NamedPipe", "CharDevice", "BlockDevice", "Directory",
              "RegularFile", "Symlink", "Socket"}

\* block_io.rs:135-152
kind_to_u8(kind) ==
    CASE kind = "NamedPipe" -> 1
      [] kind = "CharDevice" -> 2
      [] kind = "BlockDevice" -> 3
      [] kind = "Directory" -> 4
      [] kind = "RegularFile" -> 5
      [] kind = "Symlink" -> 6
      [] kind = "Socket" -> 7

\* block_io.rs:155-173; any other code is todo!(), a panic
u8_to_kind(kindval) ==
    CASE kindval = 1 -> "NamedPipe"
      [] kindval = 2 -> "CharDevice"
      [] kindval = 3 -> "BlockDevice"
      [] kindval = 4 -> "Directory"
      [] kindval = 5 -> "RegularFile"
      [] kindval = 6 -> "Symlink"
      [] kindval = 7 -> "Socket"

\* nodes.rs:91-113, with the time t that SystemTime::now() returns
make_attr(ino, kind, t) ==
    [ino |-> ino, size |-> 0, blocks |-> 0,
     atime |-> t, mtime |-> t, ctime |-> t, crtime |-> t,
     kind |-> kind, perm |-> IF kind = "Directory" THEN 493 ELSE 420,
     nlink |-> 2, uid |-> 501, gid |-> 100, rdev |-> 0, flags |-> 0,
     blksize |-> BLOCK_SIZE]

\* EntryBlock::new(name, ino, kind, is_tag)
EntryBlock_new(name, ino, kind, is_tag, t) ==
    [name |-> name, is_tag |-> is_tag, attr |-> make_attr(ino, kind, t),
     more_data |-> 0]

\* DirectoryBlock::new()
DirectoryBlock_new == [entries |-> <<>>, next |-> 0]

\* IndexBlock::new(): block holds the non-zero slots
IndexBlock_new == [block |-> Zeroes, next |-> 0]

\* DataBlock::new()
DataBlock_new == [data |-> Zeroes]

AnyBlock(kind, b) == [kind |-> kind, b |-> b]

\* "PTFEntry".as_bytes()
Magic == <<80, 84, 70, 69, 110, 116, 114, 121>>

\* n.as_millis() as u64 of a time in nanoseconds, block_io.rs:96-101
as_millis(t) == t \div 1000000

\* A variant that takes the stored number for microseconds
from_millis_as_micros(ms) == IF ms > WIDE \div 1000 THEN WIDE ELSE ms * 1000

\* Duration::from_millis, block_io.rs:104-109
from_millis(ms) == IF ms > WIDE \div 1000000 THEN WIDE ELSE ms * 1000000

\* The byte write_entry_block stores at offset o, block_io.rs:238-263
EntryByte(b, o) ==
    LET a == b.attr
    IN  CASE o < 8 -> Magic[o + 1]
          [] o \in 8 .. 15 -> LE(a.ino, o - 8)
          [] o \in 16 .. 23 -> LE(a.size, o - 16)
          [] o \in 24 .. 31 -> LE(a.blocks, o - 24)
          [] o \in 32 .. 39 -> LE(as_millis(a.atime), o - 32)
          [] o \in 40 .. 47 -> LE(as_millis(a.mtime), o - 40)
          [] o \in 48 .. 55 -> LE(as_millis(a.ctime), o - 48)
          [] o \in 56 .. 63 -> LE(as_millis(a.crtime), o - 56)
          [] o \in 64 .. 67 -> LE(a.perm, o - 64)
          [] o \in 68 .. 71 -> LE(a.nlink, o - 68)
          [] o \in 72 .. 75 -> LE(a.uid, o - 72)
          [] o \in 76 .. 79 -> LE(a.gid, o - 76)
          [] o \in 80 .. 83 -> LE(a.rdev, o - 80)
          [] o \in 84 .. 87 -> LE(a.blksize, o - 84)
          [] o \in 88 .. 91 -> LE(a.flags, o - 88)
          [] o = 92 -> kind_to_u8(a.kind)
          [] o = 93 -> IF b.is_tag THEN 1 ELSE 0
          [] o \in 96 .. 103 -> LE(b.more_data, o - 96)
          [] OTHER -> 0

\* block_io.rs:234-269: the BLOCK_SIZE bytes written for an EntryBlock
write_entry_block(b) ==
    [ok |-> TRUE, data |-> Arr(0 .. 103, LAMBDA o : EntryByte(b, o))]

\* block_io.rs:330-366: the magic is asserted, the kind code must be 1..7
read_entry_block(d) ==
    IF \E i \in 0 .. 7 : Byte(d, i) # Magic[i + 1] THEN [ok |-> FALSE]
    ELSE IF Byte(d, 92) \notin 1 .. 7 THEN [ok |-> FALSE]
    ELSE     [ok |-> TRUE,
              b |-> [name |-> <<>>,
                     is_tag |-> Byte(d, 93) = 1,
                     more_data |-> to_u64(d, 96),
                     attr |-> [ino |-> to_u64(d, 8),
                               size |-> to_u64(d, 16),
                               blocks |-> to_u64(d, 24),
                               atime |-> from_millis(to_u64(d, 32)),
                               mtime |-> from_millis(to_u64(d, 40)),
                               ctime |-> from_millis(to_u64(d, 48)),
                               crtime |-> from_millis(to_u64(d, 56)),
                               perm |-> to_u32(d, 64) % 65536,
                               nlink |-> to_u32(d, 68),
                               uid |-> to_u32(d, 72),
                               gid |-> to_u32(d, 76),
                               rdev |-> to_u32(d, 80),
                               blksize |-> to_u32(d, 84),
                               flags |-> to_u32(d, 88),
                               kind |-> u8_to_kind(Byte(d, 92))]]]

\* The non-zero slots of an IndexBlock's block array
Slot(ib, i) == Byte(ib.block, i)

\* block_io.rs:272-289: the slots, then next right behind the last slot
write_index_block(b) ==
    LET at(o) == LET i == o \div 8
                 IN  IF i < INDEX_SLOTS THEN LE(Slot(b, i), o % 8)
                     ELSE LE(b.next, o % 8)
        used == UNION {8 * i .. 8 * i + 7 : i \in DOMAIN b.block \cup {INDEX_SLOTS}}
    IN  [ok |-> TRUE, data |-> Arr(used, at)]

\* block_io.rs:369-390
read_index_block(d) ==
    LET used == {o \div 8 : o \in DOMAIN d} \cap (0 .. INDEX_SLOTS - 1)
    IN  [ok |-> TRUE,
         b |-> [block |-> [i \in used |-> to_u64(d, 8 * i)],
                next |-> to_u64(d, 8 * INDEX_SLOTS)]]

\* The array d with the bytes f(o) stored at the offsets o of S.
Store(d, S, f(_)) ==
    [o \in (DOMAIN d \ S) \cup {x \in S : f(x) # 0} |->
        IF o \in S THEN f(o) ELSE d[o]]

\* block_io.rs:299-309: entry k goes to pos = k * ENTRY_SIZE; an offset outside
\* the buffer is an index panic
RECURSIVE WriteEntries(_, _, _)
WriteEntries(entries, k, d) ==
    IF k > Len(entries) THEN [ok |-> TRUE, data |-> d]
    ELSE LET pos == (k - 1) * ENTRY_SIZE
             e == entries[k]
         IN  IF pos + 8 + Len(e.name) > BLOCK_SIZE \/ pos + 8 > BLOCK_SIZE
             THEN [ok |-> FALSE]
             ELSE LET d1 == Store(d, pos .. pos + 7, LAMBDA o : LE(e.ino, o - pos))
                      d2 == Store(d1, pos + 8 .. pos + 7 + Len(e.name),
                                  LAMBDA o : e.name[o - pos - 7])
                  IN  WriteEntries(entries, k + 1, d2)

\* block_io.rs:292-317: the entries, then next in the last 8 bytes
write_directory_block(b) ==
    Let(WriteEntries(b.entries, 1, Zeroes), LAMBDA w :
        IF ~w.ok THEN w
        ELSE [ok |-> TRUE,
              data |-> Store(w.data, BLOCK_SIZE - 8 .. BLOCK_SIZE - 1,
                             LAMBDA o : LE(b.next, o - (BLOCK_SIZE - 8)))])

\* String::from_utf8(vec).is_ok()
RECURSIVE Utf8Ok(_, _)
Utf8Ok(s, i) ==
    LET cont(j) == j <= Len(s) /\ s[j] \in 128 .. 191
    IN  IF \A j \in i .. Len(s) : s[j] < 128 THEN TRUE
        ELSE LET c == s[i]
             IN  CASE c < 128 -> Utf8Ok(s, i + 1)
                   [] c \in 194 .. 223 -> cont(i + 1) /\ Utf8Ok(s, i + 2)
                   [] c \in 224 .. 239 ->
                        /\ cont(i + 1) /\ cont(i + 2)
                        /\ (c = 224 => s[i + 1] >= 160)
                        /\ (c = 237 => s[i + 1] <= 159)
                        /\ Utf8Ok(s, i + 3)
                   [] c \in 240 .. 244 ->
                        /\ cont(i + 1) /\ cont(i + 2) /\ cont(i + 3)
                        /\ (c = 240 => s[i + 1] >= 144)
                        /\ (c = 244 => s[i + 1] <= 143)
                        /\ Utf8Ok(s, i + 4)
                   [] OTHER -> FALSE

\* block_io.rs:402-424: read entries until one has ino = 0; data[end] beyond the
\* buffer is an index panic, and so is a name that is not UTF-8
RECURSIVE ReadEntries(_, _, _)
ReadEntries(d, pos, acc) ==
    IF pos + 8 >= BLOCK_SIZE THEN [ok |-> FALSE]
    ELSE IF \A e \in pos + 8 .. BLOCK_SIZE - 1 : Byte(d, e) # 0 THEN [ok |-> FALSE]
    ELSE LET end == CHOOSE e \in pos + 8 .. BLOCK_SIZE - 1 :
                        /\ Byte(d, e) = 0
                        /\ \A f \in pos + 8 .. e - 1 : Byte(d, f) # 0
             name == [i \in 1 .. end - (pos + 8) |-> Byte(d, pos + 7 + i)]
             ino == to_u64(d, pos)
         IN  IF ~Utf8Ok(name, 1) THEN [ok |-> FALSE]
             ELSE IF ino = 0 THEN [ok |-> TRUE, entries |-> acc]
             ELSE ReadEntries(d, pos + ENTRY_SIZE,
                              Append(acc, [ino |-> ino, name |-> name]))

\* block_io.rs:393-429
read_directory_block(d) ==
    Let(ReadEntries(d, 0, <<>>), LAMBDA r :
        IF ~r.ok THEN r
        ELSE [ok |-> TRUE,
              b |-> [entries |-> r.entries, next |-> to_u64(d, BLOCK_SIZE - 8)]])

\* block_io.rs:320-327
write_data_block(b) == [ok |-> TRUE, data |-> b.data]

\* block_io.rs:432-440
read_data_block(d) == [ok |-> TRUE, b |-> [data |-> d]]

\* BlockIo::write_block, block_io.rs:213-231
io_write_block(ab) ==
    CASE ab.kind = "EntryBlock" -> write_entry_block(ab.b)
      [] ab.kind = "IndexBlock" -> write_index_block(ab.b)
      [] ab.kind = "DirectoryBlock" -> write_directory_block(ab.b)
      [] ab.kind = "DataBlock" -> write_data_block(ab.b)

\* The BLOCK_SIZE bytes of the image at block number no
DiskAt(dk, no) == IF no \in DOMAIN dk THEN dk[no] ELSE Zeroes

\* seek to no * BLOCK_SIZE and write the BLOCK_SIZE bytes d
DiskPut(dk, no, d) ==
    IF d = Zeroes THEN [n \in DOMAIN dk \ {no} |-> dk[n]]
    ELSE [n \in DOMAIN dk \cup {no} |-> IF n = no THEN d ELSE dk[n]]

---------------------------------------------------------------------------
(* BlockCache, block_cache.rs.  A cache value c is the record of the fields *)
(* of a BlockCache together with the image file behind its BlockIo:         *)
(* c.st is "run", or "panic" once a step has panicked (the process is gone;  *)
(* the image keeps what was written before).                                *)

\* BlockCache::new over the image dk, block_cache.rs:45-55
BlockCache_new(dk, hist) ==
    [bitmap |-> <<>>, tags |-> <<>>, blocks |-> [n \in {} |-> 0], disk |-> dk,
     allocs |-> hist, st |-> "run"]

Panic(c) == [c EXCEPT !.st = "panic"]

Running(c) == c.st = "run"

\* Mutant: the number handed out is not the one whose bit was taken
allocate_block_next(c) ==
    IF Len(c.bitmap) = 0 THEN [c |-> Panic(c), n |-> 0]
    ELSE LET n == find_free_block(c.bitmap)
         IN  [c |-> [c EXCEPT !.bitmap = take_block(@, n), !.allocs = Append(@, n + 1)],
              n |-> n + 1]

\* block_cache.rs:204-208; take_block indexes self.bitmap, so an empty bitmap panics
allocate_block(c) ==
    IF Len(c.bitmap) = 0 THEN [c |-> Panic(c), n |-> 0]
    ELSE LET n == find_free_block(c.bitmap)
         IN  [c |-> [c EXCEPT !.bitmap = take_block(@, n), !.allocs = Append(@, n)],
              n |-> n]

\* block_cache.rs:224-230: write to the image and insert into the residency map
write_block(c, ab, no) ==
    Let(io_write_block(ab), LAMBDA w :
        IF ~w.ok THEN Panic(c)
        ELSE [c EXCEPT !.disk = DiskPut(@, no, w.data),
                       !.blocks = [n \in DOMAIN @ \cup {no} |-> IF n = no THEN ab ELSE @[n]]])

\* Mutant: the block is read from the image even when it is resident
Retrieve_from_image(c, bno, kind, rd) ==
    IF ~rd.ok THEN [c |-> Panic(c), some |-> FALSE]
    ELSE [c |-> [c EXCEPT !.blocks =
                    [n \in DOMAIN @ \cup {bno} |-> IF n = bno THEN AnyBlock(kind, rd.b) ELSE @[n]]],
          some |-> TRUE]

\* The shape of the four retrieve_*_block functions: a resident block is
\* returned when it is of the expected kind; a block that is not resident is
\* read from the image as the expected kind and made resident.
Retrieve(c, bno, kind, rd) ==
    IF bno \in DOMAIN c.blocks
    THEN [c |-> c, some |-> c.blocks[bno].kind = kind]
    ELSE IF ~rd.ok THEN [c |-> Panic(c), some |-> FALSE]
    ELSE [c |-> [c EXCEPT !.blocks =
                    [n \in DOMAIN @ \cup {bno} |-> IF n = bno THEN AnyBlock(kind, rd.b) ELSE @[n]]],
          some |-> TRUE]

\* block_cache.rs:247-273
retrieve_entry_block(c, bno) ==
    Retrieve(c, bno, "EntryBlock", read_entry_block(DiskAt(c.disk, bno)))

\* block_cache.rs:276-307
retrieve_directory_block(c, bno) ==
    Retrieve(c, bno, "DirectoryBlock", read_directory_block(DiskAt(c.disk, bno)))

\* block_cache.rs:310-336
retrieve_index_block(c, bno) ==
    Retrieve(c, bno, "IndexBlock", read_index_block(DiskAt(c.disk, bno)))

\* block_cache.rs:339-365
retrieve_data_block(c, bno) ==
    Retrieve(c, bno, "DataBlock", read_data_block(DiskAt(c.disk, bno)))

\* The image after the blocks bs[1], bs[2], ... were written at first, first + 1, ...
DiskPutSeq(dk, first, bs, i) ==
    LET put == {first + k - 1 : k \in i .. Len(bs)}
        kept == {n \in put : bs[n - first + 1] # Zeroes}
    IN  [n \in (DOMAIN dk \ put) \cup kept |->
            IF n \in kept THEN bs[n - first + 1] ELSE dk[n]]

\* block_cache.rs:79-109: fs-info, the bitmap blocks, the tag roots, then the
\* resident blocks (each key once, so their order does not show in the image)
flush(c) ==
    LET fsinfo == Arr({4, 5}, LAMBDA o : IF o = 4 THEN Len(c.bitmap) % 256
                                         ELSE Len(c.tags) % 256)
        bm_size == Len(c.bitmap)
        d1 == DiskPut(c.disk, FSINFO_BLOCK, fsinfo)
        d2 == DiskPutSeq(d1, 3, c.bitmap, 1)
        d3 == DiskPutSeq(d2, 3 + bm_size,
                         [i \in 1 .. Len(c.tags) |-> write_entry_block(c.tags[i]).data], 1)
    IN  Let(d3, LAMBDA d : Let([n \in DOMAIN c.blocks |-> io_write_block(c.blocks[n])],
            LAMBDA enc :
                IF \E n \in DOMAIN enc : ~enc[n].ok THEN Panic([c EXCEPT !.disk = d])
                ELSE LET keep == {n \in DOMAIN enc : enc[n].data # Zeroes}
                     IN  [c EXCEPT !.disk = [n \in (DOMAIN d \ DOMAIN enc) \cup keep |->
                                               IF n \in keep THEN enc[n].data ELSE d[n]]]))

\* Mutant: the resident blocks are written before the tag roots
flush_writes_tags_last(c, keys) ==
    <<[call |-> "write_data_block", no |-> FSINFO_BLOCK,
       w |-> [ok |-> TRUE,
              data |-> Arr({4, 5}, LAMBDA o : IF o = 4 THEN Len(c.bitmap) % 256
                                              ELSE Len(c.tags) % 256)]]>>
    \o [i \in 1 .. Len(c.bitmap) |->
           [call |-> "write_data_block", no |-> 3 + i - 1,
            w |-> [ok |-> TRUE, data |-> c.bitmap[i]]]]
    \o [i \in 1 .. Len(keys) |->
           [call |-> "write_block", no |-> keys[i], w |-> io_write_block(c.blocks[keys[i]])]]
    \o [i \in 1 .. Len(c.tags) |->
           [call |-> "write_entry_block", no |-> 3 + Len(c.bitmap) + i - 1,
            w |-> write_entry_block(c.tags[i])]]
    \o <<[call |-> "flush", no |-> 0, w |-> [ok |-> TRUE, data |-> Zeroes]]>>

\* block_cache.rs:79-109: the calls flush makes on the BlockIo, in the order
\* it makes them, each with the block number and the bytes it writes; keys
\* is the order in which the HashMap gives the resident blocks
flush_writes(c, keys) ==
    <<[call |-> "write_data_block", no |-> FSINFO_BLOCK,
       w |-> [ok |-> TRUE,
              data |-> Arr({4, 5}, LAMBDA o : IF o = 4 THEN Len(c.bitmap) % 256
                                              ELSE Len(c.tags) % 256)]]>>
    \o [i \in 1 .. Len(c.bitmap) |->
           [call |-> "write_data_block", no |-> 3 + i - 1,
            w |-> [ok |-> TRUE, data |-> c.bitmap[i]]]]
    \o [i \in 1 .. Len(c.tags) |->
           [call |-> "write_entry_block", no |-> 3 + Len(c.bitmap) + i - 1,
            w |-> write_entry_block(c.tags[i])]]
    \o [i \in 1 .. Len(keys) |->
           [call |-> "write_block", no |-> keys[i], w |-> io_write_block(c.blocks[keys[i]])]]
    \o <<[call |-> "flush", no |-> 0, w |-> [ok |-> TRUE, data |-> Zeroes]]>>

\* The calls that are made: unwrap() panics at the first write that fails
Issued(ws) ==
    IF \A i \in 1 .. Len(ws) : ws[i].w.ok THEN ws
    ELSE SubSeq(ws, 1, Min({i \in 1 .. Len(ws) : ~ws[i].w.ok}))

\* block_cache.rs:58-76: bm_size bitmap blocks and TAGS tag roots are read and
\* pushed; read_entry_block asserts the magic of each tag root
open(c) ==
    LET fsinfo == read_data_block(DiskAt(c.disk, FSINFO_BLOCK)).b
        bm_size == Byte(fsinfo.data, 4)
        bms == [i \in 1 .. bm_size |-> read_data_block(DiskAt(c.disk, 3 + i - 1)).b.data]
    IN  Let([i \in 1 .. TAGS |-> read_entry_block(DiskAt(c.disk, 3 + bm_size + i - 1))],
            LAMBDA tgs :
                IF \E i \in 1 .. TAGS : ~tgs[i].ok THEN Panic([c EXCEPT !.bitmap = @ \o bms])
                ELSE [c EXCEPT !.bitmap = @ \o bms,
                               !.tags = @ \o [i \in 1 .. TAGS |-> tgs[i].b]])

\* take_block for ns[lo], ..., ns[hi] in this order, by halves
RECURSIVE TakeRange(_, _, _, _)
TakeRange(bm, ns, lo, hi) ==
    IF lo > hi THEN bm
    ELSE IF lo = hi THEN take_block(bm, ns[lo])
    ELSE Let(TakeRange(bm, ns, lo, (lo + hi) \div 2), LAMBDA half :
             TakeRange(half, ns, (lo + hi) \div 2 + 1, hi))

\* take_block for every number of the sequence ns, from ns[i] on
TakeAll(bm, ns, i) == TakeRange(bm, ns, i, Len(ns))

\* Mutant: the tag roots are pushed but their blocks are not taken
size_filesystem_untaken(c, size, t) ==
    LET zeroed == [n \in {m \in DOMAIN c.disk : m >= size} |-> c.disk[n]]
        bm_size == size \div (BLOCK_SIZE * 8) + 1
        bm0 == c.bitmap \o [i \in 1 .. bm_size |-> Zeroes]
        tg == [i \in 1 .. TAGS |->
                  EntryBlock_new(<<>>, 3 + bm_size + i - 1, "Directory", TRUE, t)]
        bm1 == TakeAll(bm0, [i \in 1 .. bm_size |-> 3 + i - 1], 1)
    IN  flush([c EXCEPT !.disk = zeroed, !.bitmap = bm1, !.tags = @ \o tg])

\* block_cache.rs:112-142, at time t
size_filesystem(c, size, t) ==
    LET zeroed == [n \in {m \in DOMAIN c.disk : m >= size} |-> c.disk[n]]
        bites_per_block == BLOCK_SIZE * 8
        bm_size == size \div bites_per_block + 1
        bm0 == c.bitmap \o [i \in 1 .. bm_size |-> Zeroes]
        tg == [i \in 1 .. TAGS |->
                  EntryBlock_new(<<>>, 3 + bm_size + i - 1, "Directory", TRUE, t)]
        bm1 == TakeAll(bm0, [i \in 1 .. bm_size |-> 3 + i - 1], 1)
        bm2 == TakeAll(bm1, [i \in 1 .. TAGS |-> 3 + bm_size + i - 1], 1)
    IN  flush([c EXCEPT !.disk = zeroed, !.bitmap = bm2, !.tags = @ \o tg])

---------------------------------------------------------------------------
(* PathTagFs, path_tag_fs.rs.  Every operation takes the cache value and    *)
(* returns the cache value it leaves behind, with its result.               *)

\* The block resident at bno with one field of it replaced (a &mut borrow)
SetField(c, bno, f, v) ==
    [c EXCEPT !.blocks[bno].b = [g \in DOMAIN @ |-> IF g = f THEN v ELSE @[g]]]

\* path_tag_fs.rs:453-469, the walk along the chain from block next
RECURSIVE ChainStore(_, _, _, _)
ChainStore(c, next, name, ino) ==
    Let(retrieve_directory_block(c, next), LAMBDA d :
        IF ~Running(d.c) THEN [c |-> d.c, result |-> 0]
        ELSE IF ~d.some THEN [c |-> Panic(d.c), result |-> 0]
        ELSE LET db == d.c.blocks[next].b
             IN  IF Len(db.entries) < MAX_ENTRIES
                 THEN [c |-> SetField(d.c, next, "entries",
                                      Append(db.entries, [ino |-> ino, name |-> name])),
                       result |-> 0]
                 ELSE IF db.next = 0 THEN [c |-> d.c, result |-> next]
                 ELSE ChainStore(d.c, db.next, name, ino))

\* path_tag_fs.rs:435-475
store_directory_entry(c, parent_ino, name, ino) ==
    Let(retrieve_entry_block(c, parent_ino), LAMBDA p :
        IF ~Running(p.c) \/ ~p.some THEN [c |-> p.c, result |-> 0]
        ELSE IF p.c.blocks[parent_ino].b.more_data = 0
             THEN [c |-> p.c, result |-> parent_ino]
        ELSE ChainStore(p.c, p.c.blocks[parent_ino].b.more_data, name, ino))

\* Mutant: the new directory block names the tail block of the chain as its
\* next block
extend_directory_chain_back(c, tail, name, ino) ==
    Let(allocate_block(c), LAMBDA a :
      IF ~Running(a.c) THEN a.c
      ELSE LET bno == a.n
               db == [DirectoryBlock_new EXCEPT
                        !.entries = Append(@, [ino |-> ino, name |-> name]),
                        !.next = IF tail \in DOMAIN a.c.blocks
                                    /\ a.c.blocks[tail].kind = "DirectoryBlock"
                                 THEN tail ELSE 0]
           IN  Let(write_block(a.c, AnyBlock("DirectoryBlock", db), bno), LAMBDA w :
                 IF ~Running(w) THEN w
                 ELSE Let(retrieve_directory_block(w, tail), LAMBDA d :
                   IF ~Running(d.c) THEN d.c
                   ELSE IF d.some THEN SetField(d.c, tail, "next", bno)
                   ELSE Let(retrieve_entry_block(d.c, tail), LAMBDA e :
                     IF ~Running(e.c) THEN e.c
                     ELSE IF ~e.some THEN Panic(e.c)
                     ELSE SetField(e.c, tail, "more_data", bno)))))

\* path_tag_fs.rs:401-432
extend_directory_chain(c, tail, name, ino) ==
    Let(allocate_block(c), LAMBDA a :
      IF ~Running(a.c) THEN a.c
      ELSE LET bno == a.n
               db == [DirectoryBlock_new EXCEPT
                        !.entries = Append(@, [ino |-> ino, name |-> name])]
           IN  Let(write_block(a.c, AnyBlock("DirectoryBlock", db), bno), LAMBDA w :
                 IF ~Running(w) THEN w
                 ELSE Let(retrieve_directory_block(w, tail), LAMBDA d :
                   IF ~Running(d.c) THEN d.c
                   ELSE IF d.some THEN SetField(d.c, tail, "next", bno)
                   ELSE Let(retrieve_entry_block(d.c, tail), LAMBDA e :
                     IF ~Running(e.c) THEN e.c
                     ELSE IF ~e.some THEN Panic(e.c)
                     ELSE SetField(e.c, tail, "more_data", bno)))))

\* path_tag_fs.rs:478-488
add_directory_entry(c, parent_ino, name, ino) ==
    Let(store_directory_entry(c, parent_ino, name, ino), LAMBDA s :
        IF ~Running(s.c) \/ s.result = 0 THEN s.c
        ELSE extend_directory_chain(s.c, s.result, name, ino))

\* Mutant: the new entry carries the inode number of its parent
mknod_parent_ino(c, parent_ino, name, kind, t) ==
    Let(retrieve_entry_block(c, parent_ino), LAMBDA p :
      IF ~Running(p.c) \/ ~p.some THEN [c |-> p.c, some |-> FALSE, ino |-> 0]
      ELSE Let(allocate_block(p.c), LAMBDA a :
        IF ~Running(a.c) THEN [c |-> a.c, some |-> FALSE, ino |-> 0]
        ELSE LET bno == a.n
                 entry == EntryBlock_new(name, parent_ino, kind, FALSE, t)
             IN  Let(add_directory_entry(a.c, parent_ino, name, bno), LAMBDA d :
                   IF ~Running(d) THEN [c |-> d, some |-> FALSE, ino |-> 0]
                   ELSE [c |-> write_block(d, AnyBlock("EntryBlock", entry), bno),
                         some |-> TRUE, ino |-> bno])))

\* path_tag_fs.rs:347-370, at time t
mknod(c, parent_ino, name, kind, t) ==
    Let(retrieve_entry_block(c, parent_ino), LAMBDA p :
      IF ~Running(p.c) \/ ~p.some THEN [c |-> p.c, some |-> FALSE, ino |-> 0]
      ELSE Let(allocate_block(p.c), LAMBDA a :
        IF ~Running(a.c) THEN [c |-> a.c, some |-> FALSE, ino |-> 0]
        ELSE LET bno == a.n
                 entry == EntryBlock_new(name, bno, kind, FALSE, t)
             IN  Let(add_directory_entry(a.c, parent_ino, name, bno), LAMBDA d :
                   IF ~Running(d) THEN [c |-> d, some |-> FALSE, ino |-> 0]
                   ELSE [c |-> write_block(d, AnyBlock("EntryBlock", entry), bno),
                         some |-> TRUE, ino |-> bno])))

\* path_tag_fs.rs:373-398, at time t
mkdir(c, parent_ino, name, t) ==
    Let(mknod(c, parent_ino, name, "Directory", t), LAMBDA m :
      IF ~Running(m.c) \/ ~m.some THEN m
      ELSE Let(add_directory_entry(m.c, m.ino, <<46>>, m.ino), LAMBDA d1 :
        IF ~Running(d1) THEN [c |-> d1, some |-> FALSE, ino |-> 0]
        ELSE Let(add_directory_entry(d1, m.ino, <<46, 46>>, parent_ino), LAMBDA d2 :
          [c |-> d2, some |-> Running(d2), ino |-> IF Running(d2) THEN m.ino ELSE 0])))

\* path_tag_fs.rs:326-341, the data blocks n .. end of a write
RECURSIVE DataBlocksFrom(_, _, _, _, _, _)
DataBlocksFrom(c, n, start, end, data, list) ==
    IF n > end THEN [c |-> c, list |-> list]
    ELSE Let(allocate_block(c), LAMBDA a :
      LET data_start == (n - start) * BLOCK_SIZE
          data_size == Min({BLOCK_SIZE, data.len - data_start})
          db == [DataBlock_new EXCEPT !.data =
                         [o \in {x \in 0 .. data_size - 1 :
                                     Byte(data.bytes, data_start + x) # 0}
                            |-> data.bytes[data_start + o]]]
      IN  IF ~Running(a.c) THEN [c |-> a.c, list |-> list]
          ELSE IF data_start > data.len THEN [c |-> Panic(a.c), list |-> list]
          ELSE Let(write_block(a.c, AnyBlock("DataBlock", db), a.n), LAMBDA w :
                 IF ~Running(w) THEN [c |-> w, list |-> list]
                 ELSE DataBlocksFrom(w, n + 1, start, end, data, Append(list, a.n))))

\* path_tag_fs.rs:320-344
write_data_blocks(c, offset, data) ==
    LET start == offset \div BLOCK_SIZE
        end == (offset + data.len) \div BLOCK_SIZE
    IN  DataBlocksFrom(c, start, start, end, data, <<>>)

\* path_tag_fs.rs:303-316: the index block of the list, then more_data and
\* size of the entry
write_index_of(l, inode, data) ==
    IF ~Running(l.c) THEN l.c
    ELSE Let(allocate_block(l.c), LAMBDA a :
      IF ~Running(a.c) THEN a.c
      ELSE IF Len(l.list) > INDEX_SLOTS THEN Panic(a.c)
      ELSE LET ib_no == a.n
               ib == [IndexBlock_new EXCEPT
                        !.block = Arr(0 .. Len(l.list) - 1, LAMBDA i : l.list[i + 1])]
           IN  Let(write_block(a.c, AnyBlock("IndexBlock", ib), ib_no), LAMBDA w :
                 IF ~Running(w) THEN w
                 ELSE Let(retrieve_entry_block(w, inode), LAMBDA e :
                   IF ~Running(e.c) THEN e.c
                   ELSE IF ~e.some THEN Panic(e.c)
                   ELSE SetField(SetField(e.c, inode, "more_data", ib_no), inode, "attr",
                                 [e.c.blocks[inode].b.attr EXCEPT !.size = data.len]))))

\* path_tag_fs.rs:295-317, for an offset that is not negative
write(c, inode, offset, data) ==
    write_index_of(write_data_blocks(c, offset, data), inode, data)

\* path_tag_fs.rs:295-317 for offset < 0: the test only prints, and
\* offset as usize is 2^64 + offset.  start and end are then both 2^53 above
\* offset / BLOCK_SIZE and (offset + len) / BLOCK_SIZE rounded down, unless
\* offset + data.len() passes 2^64: with overflow checks that addition panics,
\* without them it wraps, end is below start and the loop has no round
write_negative(c, inode, offset, data, overflow_checks) ==
    IF offset + data.len < 0 THEN write(c, inode, offset, data)
    ELSE IF overflow_checks THEN Panic(c)
    ELSE write_index_of([c |-> c, list |-> <<>>], inode, data)

\* A Vec<u8> holding the bytes of the data blocks ds[1], ds[2], ... one after another
RECURSIVE Concat(_, _, _)
Concat(ds, i, acc) ==
    IF i > Len(ds) THEN acc
    ELSE Concat(ds, i + 1,
                [len |-> acc.len + BLOCK_SIZE,
                 bytes |-> [o \in DOMAIN acc.bytes \cup {acc.len + x : x \in DOMAIN ds[i]} |->
                              IF o \in DOMAIN acc.bytes THEN acc.bytes[o]
                              ELSE ds[i][o - acc.len]]])

\* path_tag_fs.rs:249-274, the walk along the index chain collecting slot values
RECURSIVE IndexWalk(_, _, _, _, _)
IndexWalk(c, ib_no, start, end, list) ==
    IF ib_no = 0 THEN [c |-> c, list |-> list]
    ELSE Let(retrieve_index_block(c, ib_no), LAMBDA r :
      IF ~Running(r.c) \/ ~r.some THEN [c |-> r.c, list |-> list]
      ELSE LET ib == r.c.blocks[ib_no].b
           IN  IF Slot(ib, 0) = 0 THEN IndexWalk(r.c, ib.next, start, end, list)
               ELSE IF end >= INDEX_SLOTS /\ start <= end
                    THEN [c |-> Panic(r.c), list |-> list]
               ELSE IndexWalk(r.c, ib.next, start, end,
                              list \o [k \in 1 .. end - start + 1 |->
                                          Slot(ib, start + k - 1)]))

\* path_tag_fs.rs:276-289, the data blocks of the list appended to the result
RECURSIVE ReadBlocks(_, _, _, _)
ReadBlocks(c, list, i, ds) ==
    IF i > Len(list) THEN [c |-> c, ds |-> ds]
    ELSE Let(retrieve_data_block(c, list[i]), LAMBDA r :
      IF ~Running(r.c) THEN [c |-> r.c, ds |-> ds]
      ELSE IF ~r.some THEN ReadBlocks(r.c, list, i + 1, ds)
      ELSE ReadBlocks(r.c, list, i + 1, Append(ds, r.c.blocks[list[i]].b.data)))

\* path_tag_fs.rs:237-292
read(c, index_block, offset, size) ==
    IF offset < 0 THEN [c |-> c, out |-> [len |-> 0, bytes |-> Zeroes]]
    ELSE Let(IndexWalk(c, index_block, offset \div BLOCK_SIZE,
                       (offset + size) \div BLOCK_SIZE, <<>>), LAMBDA l :
      IF ~Running(l.c) THEN [c |-> l.c, out |-> [len |-> 0, bytes |-> Zeroes]]
      ELSE Let(ReadBlocks(l.c, l.list, 1, <<>>), LAMBDA r :
        [c |-> r.c, out |-> Concat(r.ds, 1, [len |-> 0, bytes |-> Zeroes])]))

\* path_tag_fs.rs:35-53: the two names have the same bytes
comp(one, two) ==
    /\ Len(one) = Len(two)
    /\ \A i \in 1 .. Len(two) : one[i] = two[i]

\* path_tag_fs.rs:145-159, the walk along the chain from block next: the first
\* entry of that name; the directory block is unwrapped
RECURSIVE ChainFind(_, _, _)
ChainFind(c, next, name) ==
    IF next = 0 THEN [c |-> c, some |-> FALSE, ino |-> 0]
    ELSE Let(retrieve_directory_block(c, next), LAMBDA d :
      IF ~Running(d.c) THEN [c |-> d.c, some |-> FALSE, ino |-> 0]
      ELSE IF ~d.some THEN [c |-> Panic(d.c), some |-> FALSE, ino |-> 0]
      ELSE LET db == d.c.blocks[next].b
               hits == {k \in 1 .. Len(db.entries) : comp(name, db.entries[k].name)}
           IN  IF hits # {} THEN [c |-> d.c, some |-> TRUE, ino |-> db.entries[Min(hits)].ino]
               ELSE ChainFind(d.c, db.next, name))

\* path_tag_fs.rs:131-163
find_child(c, parent_ino, name) ==
    Let(retrieve_entry_block(c, parent_ino), LAMBDA p :
        IF ~Running(p.c) \/ ~p.some THEN [c |-> p.c, some |-> FALSE, ino |-> 0]
        ELSE ChainFind(p.c, p.c.blocks[parent_ino].b.more_data, name))

\* Mutant: the entries of a later block of the chain are put before those of
\* the blocks walked so far
RECURSIVE ChainNames_later_first(_, _, _)
ChainNames_later_first(c, next, result) ==
    IF next = 0 THEN [c |-> c, result |-> result]
    ELSE Let(retrieve_directory_block(c, next), LAMBDA d :
      IF ~Running(d.c) THEN [c |-> d.c, result |-> result]
      ELSE IF ~d.some THEN [c |-> [d.c EXCEPT !.st = "hang"], result |-> result]
      ELSE LET db == d.c.blocks[next].b
           IN  ChainNames_later_first(d.c, db.next, db.entries \o result))

\* path_tag_fs.rs:182-199: a block of the chain that is resident as another
\* kind is asked for again and again; the call never returns ("hang")
RECURSIVE ChainNames(_, _, _)
ChainNames(c, next, result) ==
    IF next = 0 THEN [c |-> c, result |-> result]
    ELSE Let(retrieve_directory_block(c, next), LAMBDA d :
      IF ~Running(d.c) THEN [c |-> d.c, result |-> result]
      ELSE IF ~d.some THEN [c |-> [d.c EXCEPT !.st = "hang"], result |-> result]
      ELSE LET db == d.c.blocks[next].b
           IN  ChainNames(d.c, db.next, result \o db.entries))

\* path_tag_fs.rs:166-204
list_children_names(c, parent_ino) ==
    Let(retrieve_entry_block(c, parent_ino), LAMBDA p :
        IF ~Running(p.c) \/ ~p.some THEN [c |-> p.c, result |-> <<>>]
        ELSE ChainNames(p.c, p.c.blocks[parent_ino].b.more_data, <<>>))

\* path_tag_fs.rs:207-221
find_filetype(c, ino) ==
    Let(retrieve_entry_block(c, ino), LAMBDA r :
        IF ~Running(r.c) \/ ~r.some THEN [c |-> r.c, some |-> FALSE, kind |-> "None"]
        ELSE [c |-> r.c, some |-> TRUE, kind |-> r.c.blocks[ino].b.attr.kind])

\* path_tag_fs.rs:228-231
RECURSIVE ChildKinds(_, _, _, _)
ChildKinds(c, names, i, result) ==
    IF i > Len(names) THEN [c |-> c, result |-> result]
    ELSE Let(find_filetype(c, names[i].ino), LAMBDA k :
      IF ~Running(k.c) THEN [c |-> k.c, result |-> result]
      ELSE IF ~k.some THEN [c |-> Panic(k.c), result |-> result]
      ELSE ChildKinds(k.c, names, i + 1,
                      Append(result, [ino |-> names[i].ino, kind |-> k.kind,
                                      name |-> names[i].name])))

\* path_tag_fs.rs:224-234
list_children(c, parent_ino) ==
    Let(list_children_names(c, parent_ino), LAMBDA n :
        IF ~Running(n.c) THEN [c |-> n.c, result |-> <<>>]
        ELSE ChildKinds(n.c, n.result, 1, <<>>))

\* path_tag_fs.rs:106-123: the subtrees of the inodes todo[1], todo[2], ... are
\* listed one after another, each one's sub-directories before the next one
RECURSIVE ListAll(_, _)
ListAll(c, todo) ==
    IF todo = <<>> \/ ~Running(c) THEN c
    ELSE Let(list_children(c, Head(todo)), LAMBDA l :
      LET subdirs == SelectSeq(l.result,
                               LAMBDA ch : ch.kind = "Directory"
                                           /\ ~(Len(ch.name) > 0 /\ ch.name[1] = 46))
      IN  ListAll(l.c, [i \in 1 .. Len(subdirs) |-> subdirs[i].ino] \o Tail(todo)))

list_fs(c, ino) == ListAll(c, <<ino>>)

\* Mutant: the bit of the root inode's block is not taken
mkfs_root_untaken(c, ino_root, size, t) ==
    Let(size_filesystem(c, size, t), LAMBDA s :
      IF ~Running(s) THEN s
      ELSE LET b == [s EXCEPT !.bitmap = TakeAll(@, <<0, 2>>, 1)]
               root == EntryBlock_new(<<82, 111, 111, 116>>, ino_root, "Directory", FALSE, t)
           IN  Let(write_block(b, AnyBlock("EntryBlock", root), ino_root), LAMBDA w :
                 IF ~Running(w) THEN w
                 ELSE Let(mkdir(w, ino_root, <<80, 97, 116, 104, 101, 115>>, t), LAMBDA p :
                   IF ~Running(p.c) THEN p.c
                   ELSE Let(mkdir(p.c, ino_root, <<84, 97, 103, 115>>, t), LAMBDA g :
                     IF ~Running(g.c) THEN g.c
                     ELSE Let(flush(g.c), LAMBDA f :
                       IF ~Running(f) THEN f ELSE list_fs(f, ino_root))))))

\* path_tag_fs.rs:82-102, at time t
mkfs(c, ino_root, size, t) ==
    Let(size_filesystem(c, size, t), LAMBDA s :
      IF ~Running(s) THEN s
      ELSE LET b == [s EXCEPT !.bitmap = TakeAll(@, <<0, 1, 2>>, 1)]
               root == EntryBlock_new(<<82, 111, 111, 116>>, ino_root, "Directory", FALSE, t)
           IN  Let(write_block(b, AnyBlock("EntryBlock", root), ino_root), LAMBDA w :
                 IF ~Running(w) THEN w
                 ELSE Let(mkdir(w, ino_root, <<80, 97, 116, 104, 101, 115>>, t), LAMBDA p :
                   IF ~Running(p.c) THEN p.c
                   ELSE Let(mkdir(p.c, ino_root, <<84, 97, 103, 115>>, t), LAMBDA g :
                     IF ~Running(g.c) THEN g.c
                     ELSE Let(flush(g.c), LAMBDA f :
                       IF ~Running(f) THEN f ELSE list_fs(f, ino_root))))))

\* path_tag_fs.rs:71-74
PathTagFs_open(c, ino_root) ==
    Let(open(c), LAMBDA o : IF ~Running(o) THEN o ELSE list_fs(o, ino_root))

---------------------------------------------------------------------------
(* The engine as a state machine: one PathTagFs over one image file.        *)

INO_ROOT == 1

\* Bounds of the exploration
SmallSize == 32
LargeSize == 16384
Tick == 1500000
MaxNodes == 7
MaxMkdir == 1
MaxWrites == 2
MaxFlush == 1
MaxParents == 2
MaxTargets == 1
ShortLen == 1
LongLen == 3000

NoBlocks == [n \in {} |-> 0]

\* The cache value made of the variables
Cur ==
    [bitmap |-> bitmap, tags |-> tags, blocks |-> blocks, disk |-> disk,
     allocs |-> allocs, st |-> st]

\* The variables take the fields of the cache value c
Commit(c) ==
    /\ bitmap' = c.bitmap
    /\ tags' = c.tags
    /\ blocks' = c.blocks
    /\ disk' = c.disk
    /\ allocs' = c.allocs
    /\ st' = c.st

\* A byte slice of the given length, told apart by seed
Payload(len, seed) ==
    [len |-> len,
     bytes |-> Arr(0 .. len - 1, LAMBDA i : IF i % 1024 = 0 \/ i = len - 1
                                            THEN seed + i \div 1024 ELSE 0)]

\* The inodes resident in the cache value c, of the given kinds
Inodes(c, kinds) ==
    {n \in DOMAIN c.blocks : /\ c.blocks[n].kind = "EntryBlock"
                             /\ c.blocks[n].b.attr.kind \in kinds}

\* The k smallest numbers of S
Smallest(S, k) == {n \in S : Cardinality({m \in S : m < n}) < k}

\* The adapter of main.rs is not part of the process
NoAdapter ==
    /\ nodes = NoBlocks /\ next_node = 0
    /\ storage = NoBlocks /\ next_file_handle = 0

\* PathTagFs::new over an image file that does not exist yet
Init ==
    /\ st = "run" /\ bitmap = <<>> /\ tags = <<>> /\ blocks = NoBlocks
    /\ disk = NoBlocks /\ allocs = <<>>
    /\ now = Tick
    /\ fsSize = 0
    /\ last = [op |-> "new"]
    /\ snap = NoBlocks
    /\ wrote = NoBlocks
    /\ steps = [mk |-> 0, md |-> 0, wr |-> 0, fl |-> 0, al |-> 0]
    /\ NoAdapter

Mkfs(size) ==
    /\ st = "run" /\ fsSize = 0
    /\ Commit(mkfs(Cur, INO_ROOT, size, now))
    /\ fsSize' = size
    /\ now' = now + Tick
    /\ last' = [op |-> "mkfs", size |-> size]
    /\ UNCHANGED <<snap, wrote, steps, nodes, next_node, storage, next_file_handle>>

Mkdir(parent, name) ==
    /\ st = "run" /\ fsSize # 0 /\ last.op # "flush"
    /\ steps.mk < MaxNodes /\ steps.md < MaxMkdir
    /\ LET r == mkdir(Cur, parent, name, now)
       IN  /\ Commit(r.c)
           /\ last' = [op |-> "mkdir", parent |-> parent, some |-> r.some, ino |-> r.ino]
    /\ now' = now + Tick
    /\ steps' = [steps EXCEPT !.mk = @ + 1, !.md = @ + 1]
    /\ UNCHANGED <<fsSize, snap, wrote, nodes, next_node, storage, next_file_handle>>

Mknod(parent, name, kind) ==
    /\ st = "run" /\ fsSize # 0 /\ last.op # "flush"
    /\ steps.mk < MaxNodes
    /\ LET r == mknod(Cur, parent, name, kind, now)
       IN  /\ Commit(r.c)
           /\ last' = [op |-> "mknod", parent |-> parent, some |-> r.some, ino |-> r.ino]
    /\ now' = now + Tick
    /\ steps' = [steps EXCEPT !.mk = @ + 1]
    /\ UNCHANGED <<fsSize, snap, wrote, nodes, next_node, storage, next_file_handle>>

Write(inode, offset, len) ==
    /\ st = "run" /\ fsSize # 0 /\ last.op # "flush"
    /\ steps.wr < MaxWrites
    /\ Commit(write(Cur, inode, offset, Payload(len, 7 + 16 * steps.wr)))
    /\ last' = [op |-> "write", inode |-> inode, offset |-> offset, len |-> len]
    /\ now' = now + Tick
    /\ steps' = [steps EXCEPT !.wr = @ + 1]
    /\ UNCHANGED <<fsSize, snap, wrote, nodes, next_node, storage, next_file_handle>>

\* PathTagFs::destroy, path_tag_fs.rs:77-79
Flush ==
    /\ st = "run" /\ fsSize # 0
    /\ steps.fl < MaxFlush
    /\ LET f == flush(Cur)
       IN  /\ Commit(f)
           /\ snap' = f.blocks
    /\ last' = [op |-> "flush"]
    /\ now' = now + Tick
    /\ steps' = [steps EXCEPT !.fl = @ + 1]
    /\ UNCHANGED <<fsSize, wrote, nodes, next_node, storage, next_file_handle>>

\* The process ends after destroy; a new one is started over the same image:
\* PathTagFs::new, then open(INO_ROOT)
Reopen ==
    /\ st = "run" /\ last.op = "flush"
    /\ Commit(PathTagFs_open(BlockCache_new(disk, allocs), INO_ROOT))
    /\ last' = [op |-> "open"]
    /\ now' = now + Tick
    /\ UNCHANGED <<fsSize, snap, wrote, steps, nodes, next_node, storage, next_file_handle>>

Name_a == <<97>>

Next ==
    \/ \E size \in {SmallSize, LargeSize} : Mkfs(size)
    \/ \E p \in Smallest(Inodes(Cur, {"Directory"}), MaxParents) : Mkdir(p, Name_a)
    \/ Mknod(INO_ROOT, Name_a, "RegularFile")
    \/ \E i \in Smallest(Inodes(Cur, {"RegularFile"}), MaxTargets),
          len \in {ShortLen, LongLen} : Write(i, 0, len)
    \/ Flush
    \/ Reopen

Spec == Init /\ [][Next]_vars

---------------------------------------------------------------------------
(* What a block refers to *)

\* The block numbers a block of the cache holds: more_data; next; next and slots
BlockRefs(ab) ==
    CASE ab.kind = "EntryBlock" -> {ab.b.more_data} \ {0}
      [] ab.kind = "DirectoryBlock" -> {ab.b.next} \ {0}
      [] ab.kind = "IndexBlock" -> ({ab.b.next} \cup {ab.b.block[i] : i \in DOMAIN ab.b.block}) \ {0}
      [] OTHER -> {}

\* Bit k of the bitmap bm is set (k may lie beyond the bitmap)
BitSet(bm, k) == k < Len(bm) * BLOCK_SIZE * 8 /\ get_bitmap_bit(bm, k)

\* The block bno seen as the given kind: the resident block when it is of that
\* kind, else what the image decodes to
Lookup(c, bno, kind) ==
    LET d == DiskAt(c.disk, bno)
        rd == CASE kind = "EntryBlock" -> read_entry_block(d)
                [] kind = "DirectoryBlock" -> read_directory_block(d)
                [] kind = "IndexBlock" -> read_index_block(d)
                [] OTHER -> read_data_block(d)
    IN  IF bno \in DOMAIN c.blocks
        THEN [some |-> c.blocks[bno].kind = kind, b |-> c.blocks[bno].b]
        ELSE [some |-> rd.ok, b |-> IF rd.ok THEN rd.b ELSE rd]

\* The blocks, with the kind they are used as, that the block x = <<bno, kind>> names
TypedRefs(c, x) ==
    LET l == Lookup(c, x[1], x[2])
    IN  IF ~l.some THEN {}
        ELSE CASE x[2] = "EntryBlock" ->
                    {<<l.b.more_data, IF l.b.attr.kind = "Directory"
                                      THEN "DirectoryBlock" ELSE "IndexBlock">>}
               [] x[2] = "DirectoryBlock" ->
                    {<<l.b.next, "DirectoryBlock">>}
                    \cup {<<l.b.entries[i].ino, "EntryBlock">> : i \in 1 .. Len(l.b.entries)}
               [] x[2] = "IndexBlock" ->
                    {<<l.b.next, "IndexBlock">>}
                    \cup {<<l.b.block[i], "DataBlock">> : i \in DOMAIN l.b.block}
               [] OTHER -> {}

\* Everything reachable from the blocks of the frontier
RECURSIVE Reach(_, _, _)
Reach(c, frontier, seen) ==
    IF frontier = {} THEN seen
    ELSE LET new == {y \in UNION {TypedRefs(c, x) : x \in frontier} : y[1] # 0}
                    \ (seen \cup frontier)
         IN  Reach(c, new, seen \cup frontier)

\* The block numbers reachable from the root inode
Reachable(c) == {x[1] : x \in Reach(c, {<<INO_ROOT, "EntryBlock">>}, {})}

\* Blocks 0, 1, 2, the bitmap blocks and the tag roots
Reserved(c) == 0 .. (3 + Len(c.bitmap) + Len(c.tags) - 1)

---------------------------------------------------------------------------
(* Claims about the engine, checked under Spec *)

\* C1: after format, following mkdir, mknod and write operations, every
\* non-zero block number held in an EntryBlock's more_data, a DirectoryBlock's
\* next or an IndexBlock's next and slots has its bit set in the bitmap.
C1_ReferencedBlocksAllocated ==
    fsSize # 0 =>
        \A n \in DOMAIN blocks : \A r \in BlockRefs(blocks[n]) : BitSet(bitmap, r)

\* C1, its case: a file has been written, so an entry names an index block
\* and the index block names data blocks
C1_Witness ==
    /\ last.op = "write" /\ st = "run"
    /\ blocks[last.inode].b.more_data # 0
    /\ \E n \in DOMAIN blocks : blocks[n].kind = "IndexBlock" /\ BlockRefs(blocks[n]) # {}
    /\ \E n \in DOMAIN blocks : blocks[n].kind = "DirectoryBlock" /\ blocks[n].b.next # 0

\* C2 as stated (I1): a bitmap bit is set iff the block is a reserved slot or
\* is reachable from the root inode.  A second write to a file violates it.
C2_BitSetIffReservedOrReachable ==
    (fsSize # 0 /\ st = "run") =>
        SetBits(bitmap) = Reserved(Cur) \cup Reachable(Cur)

\* C6 as stated: every block number allocate_block returns after format with
\* capacity N is smaller than N.
C6_AllocatedBelowCapacity ==
    \A i \in 1 .. Len(allocs) : allocs[i] < fsSize

\* The entry block a equals b in every attribute the image holds, the four
\* times to the millisecond
SameEntry(a, b) ==
    LET ms(t) == from_millis(as_millis(t))
    IN  /\ a.is_tag = b.is_tag /\ a.more_data = b.more_data
        /\ a.attr = [b.attr EXCEPT !.atime = ms(@), !.mtime = ms(@),
                                  !.ctime = ms(@), !.crtime = ms(@)]

\* C10 as stated: after flush() and open() on a fresh engine, every inode's
\* entry block has the values it had before the flush, and read on each
\* file's more_data returns the same bytes.
C10_PersistedAcrossReopen ==
    last.op = "open" =>
        /\ st = "run"
        /\ \A n \in DOMAIN snap :
              snap[n].kind = "EntryBlock" =>
                  LET r == retrieve_entry_block(Cur, n)
                      old == snap[n].b
                      before == [Cur EXCEPT !.blocks = snap]
                  IN  /\ Running(r.c) /\ r.some
                      /\ SameEntry(r.c.blocks[n].b, old)
                      /\ old.attr.kind = "RegularFile" =>
                            read(r.c, old.more_data, 0, old.attr.size).out
                            = read(before, old.more_data, 0, old.attr.size).out

---------------------------------------------------------------------------
(* The allocator as a state machine: allocate_block on a formatted cache    *)
(* whose bitmap has been filled up to some level.                           *)

MaxAllocs == 20
NearScanEnd == 4090

\* a | b on bytes
OrByte(a, b) ==
    LET bit(i) == IF BitOf(a, i) \/ BitOf(b, i) THEN 2 ^ i ELSE 0
    IN  bit(0) + bit(1) + bit(2) + bit(3) + bit(4) + bit(5) + bit(6) + bit(7)

\* The bitmap bm after take_block(k) for every k below level
Fill(bm, level) ==
    [n \in 1 .. Len(bm) |->
        Arr(0 .. BLOCK_SIZE - 1,
            LAMBDA o :
               LET first == ((n - 1) * BLOCK_SIZE + o) * 8
                   cnt == IF level >= first + 8 THEN 8
                          ELSE IF level <= first THEN 0 ELSE level - first
               IN  OrByte(Byte(bm[n], o), 2 ^ cnt - 1))]

\* The number of bits of the bitmap
Capacity(bm) == Len(bm) * BLOCK_SIZE * 8

\* Some bit of the bitmap is zero
HasZero(bm) ==
    \E n \in 1 .. Len(bm) : \E o \in 0 .. BLOCK_SIZE - 1 : Byte(bm[n], o) # 255

\* The smallest bit number whose bit is zero, over every byte of every block
FirstZero(bm) ==
    LET n == Min({m \in 1 .. Len(bm) : \E o \in 0 .. BLOCK_SIZE - 1 : Byte(bm[m], o) # 255})
        o == Min({p \in 0 .. BLOCK_SIZE - 1 : Byte(bm[n], p) # 255})
        i == Min({j \in 0 .. 7 : ~BitOf(Byte(bm[n], o), j)})
    IN  ((n - 1) * BLOCK_SIZE + o) * 8 + i

\* The states allocation starts from: a cache formatted by mkfs, with the
\* blocks below the level taken (level 0: none beyond those mkfs took)
InitAlloc ==
    \E size \in {SmallSize, LargeSize} :
        LET c == mkfs(BlockCache_new(NoBlocks, <<>>), INO_ROOT, size, Tick)
        IN  \E level \in {0, NearScanEnd, Capacity(c.bitmap)} :
              /\ bitmap = Fill(c.bitmap, level)
              /\ tags = c.tags /\ blocks = c.blocks /\ disk = c.disk
              /\ allocs = c.allocs /\ st = c.st
              /\ now = Tick + Tick
              /\ fsSize = size
              /\ last = [op |-> "mkfs", size |-> size]
              /\ snap = NoBlocks
              /\ wrote = NoBlocks
              /\ steps = [mk |-> 0, md |-> 0, wr |-> 0, fl |-> 0, al |-> 0]
              /\ NoAdapter

Allocate ==
    /\ st = "run" /\ fsSize # 0
    /\ steps.al < MaxAllocs
    /\ LET a == allocate_block(Cur)
       IN  /\ Commit(a.c)
           /\ last' = [op |-> "allocate", n |-> a.n, bm |-> bitmap]
    /\ steps' = [steps EXCEPT !.al = @ + 1]
    /\ UNCHANGED <<now, fsSize, snap, wrote, nodes, next_node, storage, next_file_handle>>

NextAlloc == Allocate

SpecAlloc == InitAlloc /\ [][NextAlloc]_vars

\* C3 as stated: as long as a bit of the bitmap is free, allocate_block
\* returns a number that is not reserved and was not handed out before, so
\* the numbers returned are pairwise distinct.
C3_DistinctUntilExhausted ==
    (last.op = "allocate" /\ HasZero(last.bm)) =>
        /\ last.n \notin Reserved(Cur)
        /\ ~BitSet(last.bm, last.n)
        /\ \A i \in 1 .. Len(allocs) - 1 : allocs[i] # last.n

\* C4 as stated: when no bit of the bitmap is free, allocate_block hands out
\* no block number (neither 0 nor any other) and leaves the bitmap as it was.
C4_OutOfSpaceSurfaced ==
    (last.op = "allocate" /\ ~HasZero(last.bm)) =>
        /\ last.n \notin 0 .. Capacity(last.bm)
        /\ bitmap = last.bm

\* C5 as stated: allocate_block returns the smallest bit number whose bit is
\* zero, over all BLOCK_SIZE bytes of every bitmap block, sets that bit and
\* leaves every other bit as it was.
C5_SmallestZeroBit ==
    (last.op = "allocate" /\ HasZero(last.bm)) =>
        /\ last.n = FirstZero(last.bm)
        /\ ~BitSet(last.bm, last.n)
        /\ bitmap = take_block(last.bm, last.n)

---------------------------------------------------------------------------
(* The BlockCache as a state machine: its block interface used directly.    *)

MaxCacheOps == 5
Bno == 30
OtherBno == 50

\* One block of each kind, for block number bno
SampleBlock(kind, bno, t) ==
    CASE kind = "EntryBlock" ->
            AnyBlock(kind, EntryBlock_new(<<102>>, bno, "RegularFile", FALSE, t))
      [] kind = "DirectoryBlock" ->
            AnyBlock(kind, [entries |-> <<[ino |-> bno + 1, name |-> <<97>>]>>, next |-> 0])
      [] kind = "IndexBlock" ->
            AnyBlock(kind, [block |-> Arr({0}, LAMBDA i : bno + 2), next |-> 0])
      [] OTHER -> AnyBlock(kind, [data |-> Arr({0}, LAMBDA i : 9)])

BlockKinds == {"EntryBlock", "DirectoryBlock", "IndexBlock", "DataBlock"}

\* retrieve_<kind>_block(bno)
retrieve(c, kind, bno) ==
    CASE kind = "EntryBlock" -> retrieve_entry_block(c, bno)
      [] kind = "DirectoryBlock" -> retrieve_directory_block(c, bno)
      [] kind = "IndexBlock" -> retrieve_index_block(c, bno)
      [] OTHER -> retrieve_data_block(c, bno)

\* The assignment made through a &mut reference to a block: more_data of an
\* entry, next of a directory or index block, the first byte of a data block
Assign(ab, v) ==
    CASE ab.kind = "EntryBlock" -> [ab EXCEPT !.b.more_data = v]
      [] ab.kind = "DataBlock" -> [ab EXCEPT !.b.data = Arr({0}, LAMBDA i : v)]
      [] OTHER -> [ab EXCEPT !.b.next = v]

\* BlockCache::new over an image file that does not exist yet
InitCache ==
    /\ st = "run" /\ bitmap = <<>> /\ tags = <<>> /\ blocks = NoBlocks
    /\ disk = NoBlocks /\ allocs = <<>>
    /\ now = Tick
    /\ fsSize = 0
    /\ last = [op |-> "new"]
    /\ snap = NoBlocks
    /\ wrote = NoBlocks
    /\ steps = [mk |-> 0, md |-> 0, wr |-> 0, fl |-> 0, al |-> 0]
    /\ NoAdapter

CacheStep ==
    /\ st = "run" /\ steps.al < MaxCacheOps
    /\ steps' = [steps EXCEPT !.al = @ + 1]
    /\ UNCHANGED <<now, snap, nodes, next_node, storage, next_file_handle>>

SizeFilesystem(size) ==
    /\ CacheStep
    /\ fsSize = 0 /\ wrote = NoBlocks
    /\ Commit(size_filesystem(Cur, size, now))
    /\ fsSize' = size
    /\ last' = [op |-> "size_filesystem", size |-> size]
    /\ UNCHANGED wrote

WriteBlock(kind, bno) ==
    /\ CacheStep
    /\ LET ab == SampleBlock(kind, bno, now)
       IN  /\ Commit(write_block(Cur, ab, bno))
           /\ wrote' = [n \in DOMAIN wrote \cup {bno} |->
                           IF n = bno THEN [kind |-> kind, b |-> ab.b, live |-> TRUE]
                           ELSE wrote[n]]
    /\ last' = [op |-> "write_block", kind |-> kind, bno |-> bno]
    /\ UNCHANGED fsSize

RetrieveBlock(kind, bno) ==
    /\ CacheStep
    /\ LET r == retrieve(Cur, kind, bno)
       IN  /\ Commit(r.c)
           /\ last' = [op |-> "retrieve", kind |-> kind, bno |-> bno, some |-> r.some,
                       resident |-> bno \in DOMAIN blocks,
                       b |-> IF r.some THEN r.c.blocks[bno].b ELSE NoBlocks]
    /\ UNCHANGED <<fsSize, wrote>>

\* retrieve_<kind>_block(bno), then an assignment through the reference returned
Mutate(kind, bno, v) ==
    /\ CacheStep
    /\ LET r == retrieve(Cur, kind, bno)
       IN  /\ Running(r.c) /\ r.some
           /\ Commit([r.c EXCEPT !.blocks[bno] = Assign(@, v)])
           /\ wrote' = IF bno \in DOMAIN wrote /\ wrote[bno].live /\ wrote[bno].kind = kind
                       THEN [wrote EXCEPT ![bno].b = Assign([kind |-> kind, b |-> @], v).b]
                       ELSE wrote
    /\ last' = [op |-> "mutate", kind |-> kind, bno |-> bno]
    /\ UNCHANGED fsSize

CacheFlush ==
    /\ CacheStep
    /\ Commit(flush(Cur))
    /\ last' = [op |-> "flush"]
    /\ UNCHANGED <<fsSize, wrote>>

\* The process ends; BlockCache::new over the same image, then open()
CacheOpen ==
    /\ CacheStep
    /\ Commit(open(BlockCache_new(disk, <<>>)))
    /\ wrote' = [n \in DOMAIN wrote |-> [wrote[n] EXCEPT !.live = FALSE]]
    /\ last' = [op |-> "open"]
    /\ UNCHANGED fsSize

NextCache ==
    \/ \E size \in {SmallSize, LargeSize} : SizeFilesystem(size)
    \/ \E kind \in BlockKinds : WriteBlock(kind, Bno)
    \/ \E kind \in BlockKinds : RetrieveBlock(kind, Bno)
    \/ \E kind \in BlockKinds : Mutate(kind, Bno, OtherBno)
    \/ CacheFlush
    \/ CacheOpen

SpecCache == InitCache /\ [][NextCache]_vars

\* The bitmap the image holds: as many blocks from block 3 on as the fs-info
\* block counts
ImageBitmap(dk) ==
    [i \in 1 .. Byte(DiskAt(dk, FSINFO_BLOCK), 4) |-> DiskAt(dk, 3 + i - 1)]

\* C7 as stated: when size_filesystem returns, the bits of blocks 0, 1, 2, of
\* the bitmap blocks and of the tag roots are set and no other, and the bitmap
\* written to the image holds the same bits.
C7_FormatReservesAll ==
    last.op = "size_filesystem" =>
        /\ SetBits(bitmap) = 0 .. (3 + Len(bitmap) + TAGS - 1)
        /\ ImageBitmap(disk) = bitmap

\* C7, amended: when size_filesystem returns, the bitmap has
\* size / (BLOCK_SIZE * 8) + 1 blocks, the bits of the bitmap blocks and of the
\* TAGS tag roots are set and no other (not those of blocks 0, 1, 2), and the
\* bitmap written to the image holds the same bits; mkfs, which sets the bits
\* of 0, 1 and 2 right afterwards, returns with the bits of the reserved blocks
\* and of the blocks it allocated set, in memory and on the image.
C7_FormatReservesBitmapAndTags ==
    last.op = "size_filesystem" =>
        /\ Len(bitmap) = fsSize \div (BLOCK_SIZE * 8) + 1
        /\ Len(tags) = TAGS
        /\ SetBits(bitmap) = 3 .. (3 + Len(bitmap) + TAGS - 1)
        /\ ImageBitmap(disk) = bitmap
        /\ LET f == mkfs(BlockCache_new(NoBlocks, <<>>), INO_ROOT, fsSize, now)
           IN  /\ SetBits(f.bitmap) = 0 .. (3 + Len(bitmap) + TAGS - 1)
                                       \cup {f.allocs[i] : i \in 1 .. Len(f.allocs)}
               /\ ImageBitmap(f.disk) = f.bitmap

\* C7, its case: an image large enough for two bitmap blocks was formatted
C7_Witness ==
    last.op = "size_filesystem" /\ st = "run" /\ Len(bitmap) = 2

\* C8: after write_block(b, bno), a retrieve of bno with b's kind in the same
\* process returns the resident copy: b with the assignments made since
\* through references, not the version of the image.
C8_RetrieveSeesResidentCopy ==
    (/\ last.op = "retrieve" /\ last.bno \in DOMAIN wrote
     /\ wrote[last.bno].live /\ wrote[last.bno].kind = last.kind) =>
        /\ last.some
        /\ last.b = wrote[last.bno].b

\* C8, its case: a block written and then changed through a reference, so
\* that the image holds an older version, is retrieved
C8_Witness ==
    /\ last.op = "retrieve" /\ last.some /\ last.bno \in DOMAIN wrote
    /\ wrote[last.bno].live /\ wrote[last.bno].kind = last.kind
    /\ last.b # SampleBlock(last.kind, last.bno, now).b
    /\ io_write_block(AnyBlock(last.kind, last.b)).data # DiskAt(disk, last.bno)

\* C9 as stated: a retrieve of another kind than the kind of the block stored
\* at bno returns no block, whether bno is resident or not, and the block is
\* never cached as another kind than its own.
C9_WrongKindRefused ==
    (/\ last.op = "retrieve" /\ st = "run" /\ last.bno \in DOMAIN wrote
     /\ wrote[last.bno].kind # last.kind) =>
        /\ ~last.some
        /\ last.bno \in DOMAIN blocks => blocks[last.bno].kind = wrote[last.bno].kind

---------------------------------------------------------------------------
(* A file written and read back, on a formatted cache whose bitmap has been *)
(* filled up to some level.                                                 *)

\* The bytes given to the write that `last` records
LastPayload == Payload(last.len, 7 + 16 * (steps.wr - 1))

\* read(retrieve_entry_block(inode).more_data, 0, len) right after the write
\* of len bytes to inode; the entry is unwrapped
ReadBack ==
    /\ st = "run" /\ last.op = "write"
    /\ \E e \in {retrieve_entry_block(Cur, last.inode)} :
          IF ~Running(e.c) \/ ~e.some
          THEN /\ Commit(Panic(e.c))
               /\ last' = [op |-> "read", inode |-> last.inode, len |-> last.len,
                           data |-> LastPayload, out |-> [len |-> 0, bytes |-> Zeroes]]
          ELSE \E r \in {read(e.c, e.c.blocks[last.inode].b.more_data, 0, last.len)} :
                 /\ Commit(r.c)
                 /\ last' = [op |-> "read", inode |-> last.inode, len |-> last.len,
                             data |-> LastPayload, out |-> r.out]
    /\ now' = now + Tick
    /\ UNCHANGED <<fsSize, snap, wrote, steps, nodes, next_node, storage, next_file_handle>>

NextFile ==
    \/ Mknod(INO_ROOT, Name_a, "RegularFile")
    \/ \E i \in Smallest(Inodes(Cur, {"RegularFile"}), MaxTargets),
          len \in {ShortLen, BLOCK_SIZE, LongLen} : Write(i, 0, len)
    \/ ReadBack

SpecFile == InitAlloc /\ [][NextFile]_vars

\* C11 as stated: write(ino, 0, data) to a regular file made by mknod returns,
\* and the read of the file's more_data that follows returns at least
\* len(data) bytes, the first len(data) of which are data.
C11_WriteThenReadReturnsData ==
    /\ last.op = "write" => st = "run"
    /\ last.op = "read" =>
          /\ st = "run"
          /\ last.out.len >= last.len
          /\ \A i \in 0 .. last.len - 1 :
                Byte(last.out.bytes, i) = Byte(last.data.bytes, i)

\* C11 where blocks are free: the same, for a write on a cache whose allocator
\* handed out a block that was free for each block of the write
C11_RoundTripWhileBlocksFree ==
    (/\ last.op = "read"
     /\ \A i \in 1 .. Len(allocs) : allocs[i] # 0) => 
          /\ st = "run"
          /\ last.out.len >= last.len
          /\ \A i \in 0 .. last.len - 1 :
                Byte(last.out.bytes, i) = Byte(last.data.bytes, i)

---------------------------------------------------------------------------
(* Claims about directories, checked under Spec *)

Name_b == <<98>>

\* The names asked for: those the directory lists, and two more
AskedNames(listed) == {listed[k].name : k \in 1 .. Len(listed)} \cup {Name_a, Name_b}

\* find_child(d, n) = Some(i) iff list_children(d) has an entry (i, _, n)
FindChildAgrees(c, d) ==
    LET l == list_children(c, d)
    IN  /\ Running(l.c)
        /\ \A n \in AskedNames(l.result) :
              LET f == find_child(c, d, n)
              IN  /\ Running(f.c)
                  /\ \A i \in {l.result[k].ino : k \in 1 .. Len(l.result)} \cup {f.ino} :
                        (f.some /\ f.ino = i)
                        <=> \E k \in 1 .. Len(l.result) :
                               l.result[k].ino = i /\ l.result[k].name = n

\* C12 as stated (P2): in every state reached from format by mkdir and mknod,
\* for every directory d, name n and inode i, find_child(d, n) = Some(i) iff
\* an entry (i, _, n) appears in list_children(d).
C12_FindChildIffListed ==
    (fsSize # 0 /\ st = "run" /\ steps.wr = 0) =>
        \A d \in Inodes(Cur, {"Directory"}) : FindChildAgrees(Cur, d)

\* The cache value of the next state
CurNext ==
    [bitmap |-> bitmap', tags |-> tags', blocks |-> blocks', disk |-> disk',
     allocs |-> allocs', st |-> st']

\* The <<ino, name>> pairs of a listing, in its order
Pairs(listed) == [k \in 1 .. Len(listed) |-> <<listed[k].ino, listed[k].name>>]

\* One step of the engine seen from directory d: a second listing returns what
\* the first returned; the listing after the step starts with the listing
\* before it, and a node created in d is listed last
ListingGrowsAtEnd(d) ==
    LET old == list_children(Cur, d)
        again == list_children(old.c, d)
        new == list_children(CurNext, d)
    IN  /\ Running(old.c) /\ Running(again.c)
        /\ again.result = old.result
        /\ st' = "run" =>
              /\ Running(new.c)
              /\ Len(new.result) >= Len(old.result)
              /\ SubSeq(Pairs(new.result), 1, Len(old.result)) = Pairs(old.result)
              /\ (last'.op \in {"mkdir", "mknod"} /\ last'.parent = d) =>
                    /\ Len(new.result) = Len(old.result) + 1
                    /\ new.result[Len(new.result)].ino = last'.ino
                    /\ new.result[Len(new.result)].name = Name_a

C14_OneEntryPerName ==
    (fsSize # 0 /\ st = "run") =>
        \A d \in Inodes(Cur, {"Directory"}) :
            LET l == list_children_names(Cur, d).result
            IN  \A j, k \in 1 .. Len(l) : l[j].name = l[k].name => j = k

---------------------------------------------------------------------------
(* The adapter of main.rs: the FUSE calls answered from an in-memory tree   *)
(* of FsNodes.  An adapter value ad is the record of PathTagFs.nodes and     *)
(* PathTagFs.next_node; a call returns the adapter value it leaves behind    *)
(* and its reply (error "" with the attributes of reply.entry, or the errno). *)

\* main.rs:20-21
INO_PATHES == 2
INO_TAGS == 3

\* main.rs:136, the first inode number take_next hands out
FIRST_NODE == 4

\* libc: the file type bits of a mode, main.rs:289-293
S_IFMT == 61440
S_IFIFO == 4096
S_IFDIR == 16384
S_IFREG == 32768
S_IFLNK == 40960

\* mode & S_IFMT, for a mode below 2^16
TypeBits(mode) == ((mode \div 4096) % 16) * 4096

\* main.rs:24-45
main_make_attr(ino, kind) ==
    [ino |-> ino, size |-> 0, blocks |-> 0,
     atime |-> 0, mtime |-> 0, ctime |-> 0, crtime |-> 0,
     kind |-> kind, perm |-> IF kind = "Directory" THEN 493 ELSE 420,
     nlink |-> 2, uid |-> 501, gid |-> 100, rdev |-> 0, flags |-> 0, blksize |-> 512]

\* main.rs:48-60: a name that is not UTF-8 becomes the empty string
safe_to_string(osstr) == IF Utf8Ok(osstr, 1) THEN osstr ELSE <<>>

\* main.rs:63-76
as_file_type(mode) ==
    CASE TypeBits(mode) = S_IFREG -> "RegularFile"
      [] TypeBits(mode) = S_IFLNK -> "Symlink"
      [] TypeBits(mode) = S_IFDIR -> "Directory"
      [] OTHER -> "RegularFile"

\* HashMap::insert(k, v) on the map f
Insert(f, k, v) == [x \in DOMAIN f \cup {k} |-> IF x = k THEN v ELSE f[x]]

\* FsNode::new, main.rs:102-119
FsNode_new(name, parent_ino, ino, kind, is_tag) ==
    [name |-> name, is_tag |-> is_tag, attr |-> main_make_attr(ino, kind),
     children |-> IF kind = "Directory"
                  THEN Insert(Insert(NoBlocks, <<46>>, ino), <<46, 46>>, parent_ino)
                  ELSE NoBlocks,
     index_block |-> 0]

\* FsNode::add_node, main.rs:121-123
add_node(self, node) == [self EXCEPT !.children = Insert(@, node.name, node.attr.ino)]

\* PathTagFs::new, main.rs:133-140
main_new == [nodes |-> NoBlocks, next_node |-> FIRST_NODE]

\* PathTagFs::initialize, main.rs:142-155
initialize(ad) ==
    LET root == FsNode_new(<<82, 111, 111, 116>>, INO_ROOT, INO_ROOT, "Directory", FALSE)
        pathes == FsNode_new(<<80, 97, 116, 104, 101, 115>>, INO_ROOT, INO_PATHES,
                             "Directory", FALSE)
        tgs == FsNode_new(<<84, 97, 103, 115>>, INO_ROOT, INO_TAGS, "Directory", TRUE)
        root2 == add_node(add_node(root, pathes), tgs)
    IN  [ad EXCEPT !.nodes = Insert(Insert(Insert(@, INO_PATHES, pathes), INO_TAGS, tgs),
                                    INO_ROOT, root2)]

Reply(error, attr) == [error |-> error, attr |-> attr]

\* Mutant: the node is created without looking for the name among the children
create_unchecked(ad, parent_ino, os_name, kind) ==
    IF parent_ino \notin DOMAIN ad.nodes THEN [ad |-> ad, reply |-> Reply("ENOENT", NoBlocks)]
    ELSE LET parent == ad.nodes[parent_ino]
             name == safe_to_string(os_name)
             ino == ad.next_node
             new_node == FsNode_new(name, parent_ino, ino, kind, parent.is_tag)
         IN  [ad |-> [nodes |-> Insert([ad.nodes EXCEPT ![parent_ino].children =
                                                           Insert(@, name, ino)],
                                       ino, new_node),
                      next_node |-> ino + 1],
              reply |-> Reply("", new_node.attr)]

\* The part mkdir and mknod share, main.rs:299-320 and 342-362: the parent is
\* looked up, the name is looked for among its children, and when it is not
\* there take_next gives the inode of the new node
create(ad, parent_ino, os_name, kind) ==
    IF parent_ino \notin DOMAIN ad.nodes THEN [ad |-> ad, reply |-> Reply("ENOENT", NoBlocks)]
    ELSE LET parent == ad.nodes[parent_ino]
             name == safe_to_string(os_name)
             ino == ad.next_node
             new_node == FsNode_new(name, parent_ino, ino, kind, parent.is_tag)
         IN  IF name \notin DOMAIN parent.children
             THEN [ad |-> [nodes |-> Insert([ad.nodes EXCEPT ![parent_ino].children =
                                                               Insert(@, name, ino)],
                                           ino, new_node),
                          next_node |-> ino + 1],
                   reply |-> Reply("", new_node.attr)]
             ELSE [ad |-> ad, reply |-> Reply("EEXIST", NoBlocks)]

\* Filesystem::mkdir, main.rs:327-365
Filesystem_mkdir(ad, parent_ino, os_name) == create(ad, parent_ino, os_name, "Directory")

\* Filesystem::mknod, main.rs:273-323
Filesystem_mknod(ad, parent_ino, os_name, mode) ==
    IF TypeBits(mode) \notin {S_IFREG, S_IFLNK, S_IFDIR}
    THEN [ad |-> ad, reply |-> Reply("ENOSYS", NoBlocks)]
    ELSE create(ad, parent_ino, os_name, as_file_type(mode))

---------------------------------------------------------------------------
(* NodeStorage, node_storage.rs: the in-memory blocks behind the adapter.   *)
(* A call returns the storage value it leaves behind; ok = FALSE is a panic *)

\* node_storage.rs:7, the slots of an IndexBlock of the adapter
IB_SLOTS == BLOCK_SIZE \div 8

\* NodeStorage::new, node_storage.rs:23-28
NodeStorage_new == [nodes |-> NoBlocks, next_block |-> 1]

\* node_storage.rs:30-42
allocate_index_block(s) ==
    [s |-> [nodes |-> Insert(s.nodes, s.next_block, [kind |-> "IB", block |-> Zeroes]),
            next_block |-> s.next_block + 1],
     ib_no |-> s.next_block]

\* node_storage.rs:44-67: unwrap of the index block, the slot data_pos of its
\* array; 0 is returned when the slot already names a data block
allocate_data_block_if_needed(s, index_block, data_pos) ==
    IF index_block \notin DOMAIN s.nodes THEN [s |-> s, ok |-> FALSE, db_no |-> 0]
    ELSE IF s.nodes[index_block].kind # "IB" THEN [s |-> s, ok |-> TRUE, db_no |-> 0]
    ELSE IF data_pos >= IB_SLOTS THEN [s |-> s, ok |-> FALSE, db_no |-> 0]
    ELSE IF Byte(s.nodes[index_block].block, data_pos) # 0
         THEN [s |-> s, ok |-> TRUE, db_no |-> 0]
    ELSE [s |-> [nodes |-> Insert([s.nodes EXCEPT ![index_block].block =
                                                    Insert(@, data_pos, s.next_block)],
                                  s.next_block, [kind |-> "DB", data |-> Zeroes]),
                 next_block |-> s.next_block + 1],
          ok |-> TRUE, db_no |-> s.next_block]

\* node_storage.rs:139-158, the blocks n .. end of the loop: unwrap of the
\* data block, data.len() - data_start, the slice of data
RECURSIVE StorageBlocksFrom(_, _, _, _, _, _)
StorageBlocksFrom(s, index_block, n, start, end, data) ==
    IF n > end THEN [s |-> s, ok |-> TRUE]
    ELSE Let(allocate_data_block_if_needed(s, index_block, n), LAMBDA a :
      LET data_start == (n - start) * BLOCK_SIZE
          data_size == Min({BLOCK_SIZE, data.len - data_start})
      IN  IF ~a.ok \/ a.db_no \notin DOMAIN a.s.nodes THEN [s |-> a.s, ok |-> FALSE]
          ELSE IF a.s.nodes[a.db_no].kind # "DB"
               THEN StorageBlocksFrom(a.s, index_block, n + 1, start, end, data)
          ELSE IF data_start > data.len THEN [s |-> a.s, ok |-> FALSE]
          ELSE StorageBlocksFrom(
                  [a.s EXCEPT !.nodes[a.db_no].data =
                      [o \in (DOMAIN @ \ (0 .. data_size - 1))
                             \cup {x \in 0 .. data_size - 1 :
                                      Byte(data.bytes, data_start + x) # 0}
                         |-> IF o < data_size THEN data.bytes[data_start + o] ELSE @[o]]],
                  index_block, n + 1, start, end, data))

\* node_storage.rs:134-160
NodeStorage_write_data_blocks(s, index_block, offset, data) ==
    StorageBlocksFrom(s, index_block, offset \div BLOCK_SIZE, offset \div BLOCK_SIZE,
                      (offset + data.len) \div BLOCK_SIZE, data)

\* node_storage.rs:117-131
NodeStorage_write(s, index_block_in, offset, data) ==
    IF offset < 0 THEN [s |-> s, ok |-> TRUE, ib |-> 0]
    ELSE Let(IF index_block_in = 0 THEN allocate_index_block(s)
             ELSE [s |-> s, ib_no |-> index_block_in], LAMBDA i :
           Let(NodeStorage_write_data_blocks(i.s, i.ib_no, offset, data), LAMBDA w :
             [s |-> w.s, ok |-> w.ok, ib |-> i.ib_no]))

\* node_storage.rs:87-103, the blocks n .. end of the loop: the slot n of the
\* array, unwrap of the data block
RECURSIVE StorageReadFrom(_, _, _, _, _)
StorageReadFrom(s, ib, n, end, ds) ==
    IF n > end THEN [ok |-> TRUE, ds |-> ds]
    ELSE IF n >= IB_SLOTS \/ Byte(ib.block, n) \notin DOMAIN s.nodes
         THEN [ok |-> FALSE, ds |-> ds]
    ELSE IF s.nodes[Byte(ib.block, n)].kind # "DB" THEN StorageReadFrom(s, ib, n + 1, end, ds)
    ELSE StorageReadFrom(s, ib, n + 1, end, Append(ds, s.nodes[Byte(ib.block, n)].data))

\* node_storage.rs:70-114
NodeStorage_read(s, index_block, offset, size) ==
    IF offset < 0 \/ index_block = 0 THEN [ok |-> TRUE, out |-> [len |-> 0, bytes |-> Zeroes]]
    ELSE IF index_block \notin DOMAIN s.nodes
         THEN [ok |-> FALSE, out |-> [len |-> 0, bytes |-> Zeroes]]
    ELSE IF s.nodes[index_block].kind # "IB" \/ Byte(s.nodes[index_block].block, 0) = 0
         THEN [ok |-> TRUE, out |-> [len |-> 0, bytes |-> Zeroes]]
    ELSE Let(StorageReadFrom(s, s.nodes[index_block], offset \div BLOCK_SIZE,
                             (offset + size) \div BLOCK_SIZE, <<>>), LAMBDA r :
           [ok |-> r.ok, out |-> Concat(r.ds, 1, [len |-> 0, bytes |-> Zeroes])])

---------------------------------------------------------------------------
(* The upcalls of the adapter, impl Filesystem for PathTagFs in main.rs.    *)
(* fs is the PathTagFs value; a call returns the value it leaves behind,    *)
(* ok = FALSE when it panics, and the reply it has sent ("none": no reply). *)

Error(code) == [kind |-> "error", error |-> code]

Done(fs, reply) == [fs |-> fs, ok |-> TRUE, reply |-> reply]

Abort(fs) == [fs |-> fs, ok |-> FALSE, reply |-> [kind |-> "none"]]

\* Filesystem::lookup, main.rs:183-204
Filesystem_lookup(fs, parent, os_fname) ==
    LET fname == safe_to_string(os_fname)
    IN  IF parent \notin DOMAIN fs.nodes THEN Done(fs, Error("ENOENT"))
        ELSE IF fname \notin DOMAIN fs.nodes[parent].children THEN Done(fs, Error("ENOENT"))
        ELSE IF fs.nodes[parent].children[fname] \notin DOMAIN fs.nodes THEN Abort(fs)
        ELSE Done(fs, [kind |-> "entry",
                       attr |-> fs.nodes[fs.nodes[parent].children[fname]].attr])

\* Filesystem::getattr, main.rs:208-217
Filesystem_getattr(fs, ino) ==
    IF ino \in DOMAIN fs.nodes THEN Done(fs, [kind |-> "attr", attr |-> fs.nodes[ino].attr])
    ELSE Done(fs, Error("ENOENT"))

\* Filesystem::setattr, main.rs:221-268, at time t; fields maps the names of
\* the supplied Options to their values.  Only size is looked at, and a node
\* that does not exist is given no reply.
Filesystem_setattr(fs, ino, fields, t) ==
    IF ino \notin DOMAIN fs.nodes THEN Done(fs, [kind |-> "none"])
    ELSE LET attrs == IF "size" \in DOMAIN fields
                      THEN [fs.nodes[ino].attr EXCEPT !.size = fields["size"], !.mtime = t]
                      ELSE fs.nodes[ino].attr
         IN  Done([fs EXCEPT !.nodes[ino].attr = attrs], [kind |-> "attr", attr |-> attrs])

\* Mutant: every upcall that only prints replies with ENOSYS
Filesystem_unimplemented_enosys(fs, op) == Done(fs, Error("ENOSYS"))

\* The upcalls that only print and reply with an error: unlink 397-403,
\* rmdir 406-412, symlink 416-429, rename 433-449, link 453-467, fsync 642-648,
\* setxattr 781-796, getxattr 803-816, listxattr 823-829, removexattr 833-839,
\* getlk 882-900, setlk 910-929, ioctl 944-966, fallocate 990-1006,
\* lseek 1010-1024, copy_file_range 1028-1048
Filesystem_unimplemented(fs, op) ==
    Done(fs, Error(IF op \in {"symlink", "link"} THEN "EPERM" ELSE "ENOSYS"))

\* Filesystem::open, main.rs:478-497
Filesystem_open(fs, inode) ==
    IF inode \notin DOMAIN fs.nodes THEN Done(fs, Error("EINVAL"))
    ELSE Done([fs EXCEPT !.next_file_handle = @ + 1],
              [kind |-> "opened", fh |-> fs.next_file_handle, flags |-> 0])

\* Filesystem::read, main.rs:510-542: assert!(offset >= 0), unwrap of the node
Filesystem_read(fs, inode, offset, req_size) ==
    IF offset < 0 \/ inode \notin DOMAIN fs.nodes THEN Abort(fs)
    ELSE Let(NodeStorage_read(fs.storage, fs.nodes[inode].index_block, offset,
                              Min({req_size, fs.nodes[inode].attr.size})), LAMBDA r :
           IF ~r.ok THEN Abort(fs) ELSE Done(fs, [kind |-> "data", data |-> r.out]))

\* Filesystem::write, main.rs:557-595: assert!(offset >= 0), unwrap of the node;
\* data.len() as u32 is data.len() for the lengths below 2^32 of an upcall
Filesystem_write(fs, inode, offset, data) ==
    IF offset < 0 \/ inode \notin DOMAIN fs.nodes THEN Abort(fs)
    ELSE Let(NodeStorage_write(fs.storage, fs.nodes[inode].index_block, offset, data),
             LAMBDA w :
               IF ~w.ok THEN Abort([fs EXCEPT !.storage = w.s])
               ELSE Done([fs EXCEPT !.storage = w.s,
                                    !.nodes[inode].index_block = w.ib,
                                    !.nodes[inode].attr.size = data.len],
                         [kind |-> "written", size |-> data.len]))

\* Filesystem::readdir, main.rs:670-713.  The children are a HashMap, whose
\* iteration order is not specified: skipped is the set of names that come
\* before index offset.  The reply buffer takes every entry of the directory.
Filesystem_readdir(fs, ino, offset, skipped) ==
    IF ino \notin DOMAIN fs.nodes THEN Done(fs, Error("ENOENT"))
    ELSE LET children == fs.nodes[ino].children
             sent == DOMAIN children \ skipped
         IN  IF \E name \in sent : children[name] \notin DOMAIN fs.nodes
             THEN Done(fs, Error("ENOENT"))
             ELSE Done(fs, [kind |-> "directory",
                            entries |-> {[ino |-> children[name], name |-> name,
                                          kind |-> fs.nodes[children[name]].attr.kind] :
                                         name \in sent}])

---------------------------------------------------------------------------
(* The adapter as a state machine: mkdir and mknod calls from the kernel.   *)

MaxCreated == 2
AbsentIno == 9
Perm == 420

\* The adapter value made of the variables
Ad == [nodes |-> nodes, next_node |-> next_node]

\* The engine is not part of the process
NoEngine ==
    UNCHANGED <<bitmap, tags, blocks, disk, st, now, fsSize, allocs, snap, wrote, steps>>

\* main(): PathTagFs::new(), initialize(), then the file system is mounted
InitAdapter ==
    /\ st = "run" /\ bitmap = <<>> /\ tags = <<>> /\ blocks = NoBlocks
    /\ disk = NoBlocks /\ allocs = <<>>
    /\ now = Tick
    /\ fsSize = 0
    /\ last = [op |-> "new"]
    /\ snap = NoBlocks
    /\ wrote = NoBlocks
    /\ steps = [mk |-> 0, md |-> 0, wr |-> 0, fl |-> 0, al |-> 0]
    /\ nodes = initialize(main_new).nodes
    /\ next_node = initialize(main_new).next_node
    /\ storage = NodeStorage_new
    /\ next_file_handle = 1

AdapterMkdir(parent_ino, os_name) ==
    /\ next_node < FIRST_NODE + MaxCreated
    /\ \E r \in {Filesystem_mkdir(Ad, parent_ino, os_name)} :
          /\ nodes' = r.ad.nodes
          /\ next_node' = r.ad.next_node
          /\ last' = [op |-> "mkdir", parent |-> parent_ino, os_name |-> os_name,
                      mode |-> S_IFDIR, reply |-> r.reply]
    /\ UNCHANGED <<storage, next_file_handle>>
    /\ NoEngine

AdapterMknod(parent_ino, os_name, mode) ==
    /\ next_node < FIRST_NODE + MaxCreated
    /\ \E r \in {Filesystem_mknod(Ad, parent_ino, os_name, mode)} :
          /\ nodes' = r.ad.nodes
          /\ next_node' = r.ad.next_node
          /\ last' = [op |-> "mknod", parent |-> parent_ino, os_name |-> os_name,
                      mode |-> mode, reply |-> r.reply]
    /\ UNCHANGED <<storage, next_file_handle>>
    /\ NoEngine

\* The names the kernel passes: two names and one that is not UTF-8
OsNames == {Name_a, Name_b, <<255>>}

\* The parents the kernel passes: the root, Tags, the first node created, and
\* an inode that does not exist
Parents == {INO_ROOT, INO_TAGS, FIRST_NODE, AbsentIno}

NextAdapter ==
    \/ \E p \in Parents, n \in OsNames : AdapterMkdir(p, n)
    \/ \E p \in Parents, n \in OsNames, t \in {S_IFREG, S_IFIFO} :
          AdapterMknod(p, n, t + Perm)

SpecAdapter == InitAdapter /\ [][NextAdapter]_vars

\* The call of the step is a mkdir or mknod in a parent that exists
Creation == last'.op \in {"mkdir", "mknod"} /\ last'.parent \in DOMAIN nodes

\* The step leaves the adapter as it was
Untouched == nodes' = nodes /\ next_node' = next_node

\* The step creates the node next_node with the name in the parent and
\* leaves every other node as it was
Created(parent_ino, name) ==
    /\ last'.reply.error = ""
    /\ next_node' = next_node + 1
    /\ DOMAIN nodes' = DOMAIN nodes \cup {next_node}
    /\ nodes'[next_node].name = name /\ nodes'[next_node].attr.ino = next_node
    /\ nodes'[parent_ino].children = Insert(nodes[parent_ino].children, name, next_node)
    /\ \A n \in DOMAIN nodes \ {parent_ino} : nodes'[n] = nodes[n]

---------------------------------------------------------------------------
(* The engine's tree: nodes created anywhere in a freshly formatted image   *)

MaxTreeNodes == 3
MaxTreeParents == 4

Name_Pathes == <<80, 97, 116, 104, 101, 115>>
Name_Tags == <<84, 97, 103, 115>>

\* The parents asked for: the first directories, and the first reserved tag root
TreeParents ==
    Smallest(Inodes(Cur, {"Directory"}), MaxTreeParents)
    \cup (IF fsSize # 0 THEN {3 + Len(bitmap)} ELSE {})

NextTree ==
    \/ Mkfs(SmallSize)
    \/ \E p \in TreeParents : steps.mk < MaxTreeNodes /\ Mkdir(p, Name_a)
    \/ \E p \in TreeParents : steps.mk < MaxTreeNodes /\ Mknod(p, Name_a, "RegularFile")

SpecTree == Init /\ [][NextTree]_vars

\* The directory d is top, or lies below it: the ".." entries lead from d to top
RECURSIVE Below(_, _, _, _)
Below(c, d, top, fuel) ==
    \/ d = top
    \/ /\ fuel > 0 /\ d # INO_ROOT
       /\ LET up == find_child(c, d, <<46, 46>>)
          IN  up.some /\ Below(up.c, up.ino, top, fuel - 1)

\* C16 as stated (P6, I7): the node c that a mkdir(p, n) or mknod(p, n, kind)
\* creates has is_tag equal to p's is_tag; a node created anywhere below Tags
\* has is_tag = true, one created below Pathes has is_tag = false.
C16_IsTagInherited ==
    (last.op \in {"mkdir", "mknod"} /\ st = "run" /\ last.some) =>
        LET child == blocks[last.ino].b
            parent == blocks[last.parent].b
            tags_ino == find_child(Cur, INO_ROOT, Name_Tags).ino
            pathes_ino == find_child(Cur, INO_ROOT, Name_Pathes).ino
        IN  /\ child.is_tag = parent.is_tag
            /\ Below(Cur, last.parent, tags_ino, MaxTreeNodes) => child.is_tag
            /\ Below(Cur, last.parent, pathes_ino, MaxTreeNodes) => ~child.is_tag

\* C17 as stated: after format, find_child(1, "Pathes") and
\* find_child(1, "Tags") return the inodes of two directory EntryBlocks, of
\* which Tags has is_tag = true and Pathes has is_tag = false.
C17_WellKnownChildren ==
    (last.op = "mkfs" /\ st = "run") =>
        LET t == find_child(Cur, INO_ROOT, Name_Tags)
            p == find_child(Cur, INO_ROOT, Name_Pathes)
            te == retrieve_entry_block(t.c, t.ino)
            pe == retrieve_entry_block(p.c, p.ino)
        IN  /\ t.some /\ p.some /\ te.some /\ pe.some
            /\ te.c.blocks[t.ino].b.attr.kind = "Directory"
            /\ pe.c.blocks[p.ino].b.attr.kind = "Directory"
            /\ ~pe.c.blocks[p.ino].b.is_tag
            /\ te.c.blocks[t.ino].b.is_tag

---------------------------------------------------------------------------
(* The root inode, the inode numbers and the directory chains.              *)

\* The numbers allocate_block has handed out
Allocated == {allocs[i] : i \in 1 .. Len(allocs)}

\* C18: after mkfs, and after any mkdir, mknod and write that follow it,
\* retrieve_entry_block(1) returns an EntryBlock of kind directory with
\* ino = 1 and is_tag = false; block 1 is never handed out by allocate_block
\* and the block stored at 1 is never one of another kind.
C18_RootInodeStays ==
    (fsSize # 0 /\ st = "run") =>
        LET r == retrieve_entry_block(Cur, INO_ROOT)
        IN  /\ r.some /\ Running(r.c)
            /\ r.c.blocks[INO_ROOT].kind = "EntryBlock"
            /\ r.c.blocks[INO_ROOT].b.attr.kind = "Directory"
            /\ r.c.blocks[INO_ROOT].b.attr.ino = INO_ROOT
            /\ ~r.c.blocks[INO_ROOT].b.is_tag
            /\ INO_ROOT \notin Allocated
            /\ (INO_ROOT \in DOMAIN disk =>
                   LET d == read_entry_block(disk[INO_ROOT])
                   IN  d.ok /\ d.b.attr.ino = INO_ROOT /\ d.b.attr.kind = "Directory"
                            /\ ~d.b.is_tag)

\* A mkdir, a mknod and a write have followed mkfs, and the root is resident
C18_Witness ==
    /\ fsSize # 0 /\ st = "run"
    /\ steps.md > 0 /\ steps.mk > steps.md /\ steps.wr > 0
    /\ Len(allocs) > 5
    /\ retrieve_entry_block(Cur, INO_ROOT).some

\* The entry blocks of the image: the blocks that carry the magic of an
\* EntryBlock and a kind code
ImageEntries == {n \in DOMAIN disk : read_entry_block(disk[n]).ok}

\* C19: every EntryBlock resident in the cache or written to the image has
\* attr.ino equal to the number of the block it is stored at: the root, the
\* tag roots and every inode made by mkdir or mknod.
C19_InoIsBlockNumber ==
    /\ \A n \in DOMAIN blocks :
           blocks[n].kind = "EntryBlock" => blocks[n].b.attr.ino = n
    /\ \A i \in 1 .. Len(tags) : tags[i].attr.ino = 3 + Len(bitmap) + i - 1
    /\ \A n \in ImageEntries : read_entry_block(disk[n]).b.attr.ino = n

\* Inodes made by mkdir and mknod were written to the image by destroy and
\* read back after open, next to the root and the tag roots
C19_Witness ==
    /\ st = "run" /\ last.op = "open" /\ steps.md > 0 /\ steps.mk > steps.md
    /\ Len(tags) = TAGS
    /\ INO_ROOT \in ImageEntries
    /\ \E n \in Allocated \cap ImageEntries \cap Inodes(Cur, {"RegularFile"}) :
           n \notin Reserved(Cur)
    /\ \E n \in Allocated \cap ImageEntries \cap Inodes(Cur, {"Directory"}) :
           n \notin Reserved(Cur)

\* The DirectoryBlocks from block next on, in the order of the chain, or
\* <<0>> when a block of the chain comes a second time or is no DirectoryBlock
RECURSIVE Chain(_, _, _)
Chain(c, next, seen) ==
    IF next = 0 THEN <<>>
    ELSE IF next \in seen THEN <<0>>
    ELSE LET d == retrieve_directory_block(c, next)
         IN  IF ~Running(d.c) \/ ~d.some THEN <<0>>
             ELSE LET rest == Chain(d.c, d.c.blocks[next].b.next, seen \cup {next})
                  IN  IF rest = <<0>> THEN rest ELSE <<next>> \o rest

\* C20: after mkfs and the mkdir and mknod that follow it, the chain of
\* DirectoryBlocks that starts at a directory's more_data visits no block
\* twice, and its last block has next = 0.
C20_DirectoryChainsEnd ==
    (fsSize # 0 /\ st = "run" /\ steps.wr = 0) =>
        \A d \in Inodes(Cur, {"Directory"}) :
            LET ch == Chain(Cur, blocks[d].b.more_data, {})
            IN  /\ ch # <<0>>
                /\ Cardinality({ch[i] : i \in 1 .. Len(ch)}) = Len(ch)
                /\ ch # <<>> =>
                       retrieve_directory_block(Cur, ch[Len(ch)]).c.blocks[ch[Len(ch)]].b.next = 0

\* The root's chain was extended by a second DirectoryBlock, and a directory
\* made by mkdir has a chain of its own
C20_Witness ==
    /\ fsSize # 0 /\ st = "run" /\ steps.wr = 0 /\ steps.md > 0
    /\ Len(Chain(Cur, blocks[INO_ROOT].b.more_data, {})) = 2
    /\ \E d \in Inodes(Cur, {"Directory"}) \cap Allocated :
           Len(Chain(Cur, blocks[d].b.more_data, {})) = 1

---------------------------------------------------------------------------
(* The adapter as a state machine: every upcall the kernel can make.        *)

MaxStorageBlocks == 3
MaxOpens == 1
MaxSetattr == 1
NewSize == 5000
NewMode == 384

\* The PathTagFs value of main.rs made of the variables
Fs ==
    [nodes |-> nodes, next_node |-> next_node, storage |-> storage,
     next_file_handle |-> next_file_handle]

\* The upcall has returned r: the adapter takes the value it left behind, and
\* a panic ends the process
Return(call, r) ==
    /\ nodes' = r.fs.nodes
    /\ next_node' = r.fs.next_node
    /\ storage' = r.fs.storage
    /\ next_file_handle' = r.fs.next_file_handle
    /\ st' = IF r.ok THEN "run" ELSE "panic"
    /\ last' = [call |-> call, reply |-> r.reply]
    /\ UNCHANGED <<bitmap, tags, blocks, disk, fsSize, allocs, snap, wrote, steps>>

\* mkdir and mknod of a regular file, as in AdapterMkdir and AdapterMknod
UpMkdir(parent_ino, os_name) ==
    /\ st = "run" /\ next_node < FIRST_NODE + MaxCreated
    /\ \E r \in {Filesystem_mkdir(Ad, parent_ino, os_name)} :
          Return([op |-> "mkdir", ino |-> parent_ino, os_name |-> os_name],
                 [fs |-> [Fs EXCEPT !.nodes = r.ad.nodes, !.next_node = r.ad.next_node],
                  ok |-> TRUE,
                  reply |-> IF r.reply.error = ""
                            THEN [kind |-> "entry", attr |-> r.reply.attr]
                            ELSE Error(r.reply.error)])
    /\ UNCHANGED now

UpMknod(parent_ino, os_name) ==
    /\ st = "run" /\ next_node < FIRST_NODE + MaxCreated
    /\ \E r \in {Filesystem_mknod(Ad, parent_ino, os_name, S_IFREG + Perm)} :
          Return([op |-> "mknod", ino |-> parent_ino, os_name |-> os_name],
                 [fs |-> [Fs EXCEPT !.nodes = r.ad.nodes, !.next_node = r.ad.next_node],
                  ok |-> TRUE,
                  reply |-> IF r.reply.error = ""
                            THEN [kind |-> "entry", attr |-> r.reply.attr]
                            ELSE Error(r.reply.error)])
    /\ UNCHANGED now

UpLookup(parent, os_fname) ==
    /\ st = "run"
    /\ \E r \in {Filesystem_lookup(Fs, parent, os_fname)} :
          Return([op |-> "lookup", ino |-> parent, os_name |-> os_fname], r)
    /\ UNCHANGED now

UpGetattr(ino) ==
    /\ st = "run"
    /\ \E r \in {Filesystem_getattr(Fs, ino)} : Return([op |-> "getattr", ino |-> ino], r)
    /\ UNCHANGED now

UpSetattr(ino, fields) ==
    /\ st = "run" /\ now < Tick * (1 + MaxSetattr)
    /\ \E r \in {Filesystem_setattr(Fs, ino, fields, now)} :
          Return([op |-> "setattr", ino |-> ino, fields |-> fields], r)
    /\ now' = now + Tick

UpOpen(inode) ==
    /\ st = "run" /\ next_file_handle < 1 + MaxOpens
    /\ \E r \in {Filesystem_open(Fs, inode)} : Return([op |-> "open", ino |-> inode], r)
    /\ UNCHANGED now

UpRead(inode, offset, req_size) ==
    /\ st = "run"
    /\ \E r \in {Filesystem_read(Fs, inode, offset, req_size)} :
          Return([op |-> "read", ino |-> inode, offset |-> offset, size |-> req_size], r)
    /\ UNCHANGED now

UpWrite(inode, offset, len) ==
    /\ st = "run" /\ storage.next_block <= MaxStorageBlocks
    /\ \E r \in {Filesystem_write(Fs, inode, offset, Payload(len, 7 + storage.next_block))} :
          Return([op |-> "write", ino |-> inode, offset |-> offset, len |-> len], r)
    /\ UNCHANGED now

UpReaddir(ino, offset) ==
    /\ st = "run"
    /\ \E skipped \in SUBSET (IF ino \in DOMAIN nodes THEN DOMAIN nodes[ino].children
                               ELSE {}) :
          /\ Cardinality(skipped) =
                Min({offset, IF ino \in DOMAIN nodes
                             THEN Cardinality(DOMAIN nodes[ino].children) ELSE 0})
          /\ \E r \in {Filesystem_readdir(Fs, ino, offset, skipped)} :
                Return([op |-> "readdir", ino |-> ino, offset |-> offset], r)
    /\ UNCHANGED now

UpUnimplemented(op) ==
    /\ st = "run"
    /\ \E r \in {Filesystem_unimplemented(Fs, op)} : Return([op |-> op], r)
    /\ UNCHANGED now

\* The inodes the kernel names: the root, the first node created, and an
\* inode that does not exist
UpInodes == {INO_ROOT, FIRST_NODE, AbsentIno}

\* The upcalls that main.rs leaves unimplemented
UnimplementedOps ==
    {"unlink", "rmdir", "rename", "symlink", "fsync", "setxattr", "getxattr",
     "listxattr", "removexattr", "getlk", "setlk", "ioctl", "fallocate", "lseek",
     "copy_file_range"}

NextUpcalls ==
    \/ \E p \in {INO_ROOT, AbsentIno} : UpMkdir(p, Name_a)
    \/ \E p \in {INO_ROOT, AbsentIno} : UpMknod(p, Name_b)
    \/ \E p \in {INO_ROOT, AbsentIno}, n \in {Name_a, Name_b} : UpLookup(p, n)
    \/ \E i \in UpInodes : UpGetattr(i)
    \/ \E i \in {FIRST_NODE, AbsentIno},
          f \in {NoBlocks, [size |-> NewSize], [mode |-> NewMode]} : UpSetattr(i, f)
    \/ \E i \in {FIRST_NODE, AbsentIno} : UpOpen(i)
    \/ \E i \in {FIRST_NODE, AbsentIno} : UpRead(i, 0, ShortLen)
    \/ \E i \in {FIRST_NODE, AbsentIno}, o \in {0, BLOCK_SIZE}, len \in {ShortLen, LongLen} :
          UpWrite(i, o, len)
    \/ \E i \in {INO_ROOT, AbsentIno}, o \in {0, 1} : UpReaddir(i, o)
    \/ \E op \in UnimplementedOps : UpUnimplemented(op)

SpecUpcalls == InitAdapter /\ [][NextUpcalls]_vars

\* The number of non-zero data slots reachable from the index block of the
\* adapter's node ino
DataSlots(ino) ==
    IF nodes[ino].index_block \notin DOMAIN storage.nodes THEN 0
    ELSE Cardinality(DOMAIN storage.nodes[nodes[ino].index_block].block)

\* C21: for every regular file, in every state reached by write and setattr,
\* attr.size is at most the number of non-zero data slots reachable from the
\* file times BLOCK_SIZE.
C21_SizeWithinDataBlocks ==
    st = "run" =>
        \A ino \in DOMAIN nodes :
            nodes[ino].attr.kind = "RegularFile" =>
                nodes[ino].attr.size <= DataSlots(ino) * BLOCK_SIZE

\* The same for the files no setattr has given a size
C21_SizeWithinDataBlocksAfterWrite ==
    (st = "run" /\ now = Tick) =>
        \A ino \in DOMAIN nodes :
            nodes[ino].attr.kind = "RegularFile" =>
                nodes[ino].attr.size <= DataSlots(ino) * BLOCK_SIZE

---------------------------------------------------------------------------
(* The order of the writes of one flush()                                   *)

\* The orders in which a HashMap can give the keys S
Orders(S) ==
    {q \in [1 .. Cardinality(S) -> S] : \A i, j \in 1 .. Cardinality(S) : i # j => q[i] # q[j]}

\* flush(), with the calls it makes on the BlockIo
FlushOrdered ==
    /\ CacheStep
    /\ fsSize # 0
    /\ Commit(flush(Cur))
    /\ \E keys \in Orders(DOMAIN blocks) :
          last' = [op |-> "flush", writes |-> Issued(flush_writes(Cur, keys))]
    /\ UNCHANGED <<fsSize, wrote>>

\* The blocks written before a flush: a block over the first tag root, a
\* block over the first bitmap block, and a block of its own
NextFlush ==
    \/ \E size \in {SmallSize, LargeSize} : SizeFilesystem(size)
    \/ \E kind \in {"EntryBlock", "DataBlock"}, bno \in {3, 3 + Len(bitmap), Bno} :
          WriteBlock(kind, bno)
    \/ FlushOrdered

SpecFlush == InitCache /\ [][NextFlush]_vars

\* The image after the writes ws[i], ws[i + 1], ... in this order
RECURSIVE ApplyWrites(_, _, _)
ApplyWrites(dk, ws, i) ==
    IF i > Len(ws) THEN dk
    ELSE ApplyWrites(IF ws[i].call # "flush" /\ ws[i].w.ok
                     THEN DiskPut(dk, ws[i].no, ws[i].w.data) ELSE dk, ws, i + 1)

\* C22: within one flush() the writes are issued in this order: the fs-info
\* block, the bitmap blocks in ascending index, the tag roots in ascending
\* index, the blocks of the residency map, and io.flush() after all of them;
\* the image after the call is the image these writes leave in this order.
C22_FlushWriteOrder ==
    [][(last'.op = "flush" /\ st' = "run") =>
          LET ws == last'.writes
              M == Len(bitmap)
              T == Len(tags)
              R == Cardinality(DOMAIN blocks)
          IN  /\ Len(ws) = 1 + M + T + R + 1
              /\ ws[1].call = "write_data_block" /\ ws[1].no = FSINFO_BLOCK
              /\ \A i \in 1 .. M :
                     ws[1 + i].call = "write_data_block" /\ ws[1 + i].no = 3 + i - 1
              /\ \A i \in 1 .. T :
                     /\ ws[1 + M + i].call = "write_entry_block"
                     /\ ws[1 + M + i].no = 3 + M + i - 1
              /\ \A i \in 1 .. R : ws[1 + M + T + i].call = "write_block"
              /\ {ws[1 + M + T + i].no : i \in 1 .. R} = DOMAIN blocks
              /\ \A i \in 1 .. Len(ws) : ws[i].call = "flush" <=> i = Len(ws)
              /\ disk' = ApplyWrites(disk, ws, 1)]_vars

\* A flush of two bitmap blocks, the tag roots and two resident blocks, one of
\* them stored over the first tag root
C22_Witness ==
    /\ last.op = "flush" /\ st = "run"
    /\ Len(bitmap) = 2 /\ Len(tags) = TAGS
    /\ {3 + Len(bitmap), Bno} \subseteq DOMAIN blocks
    /\ Len(last.writes) = 1 + 2 + TAGS + Cardinality(DOMAIN blocks) + 1

---------------------------------------------------------------------------
(* The replies of the adapter                                               *)

\* The last step was the upcall op
Called(op) == "call" \in DOMAIN last /\ last.call.op = op

\* C23: through the adapter, every write(ino, offset, bytes) with offset >= 0
\* on an existing regular file replies with bytes written = len(bytes): the
\* first write to the file and every later one, at any offset.
C23_WriteRepliesLength ==
    (/\ Called("write") /\ last.call.offset >= 0
     /\ last.call.ino \in DOMAIN nodes
     /\ nodes[last.call.ino].attr.kind = "RegularFile")
    => last.reply = [kind |-> "written", size |-> last.call.len]

\* The same for the writes that find the data slots of their range empty
C23_WriteToEmptySlotsRepliesLength ==
    [][(/\ st = "run" /\ Called("write")' /\ last'.call.offset >= 0
        /\ last'.call.ino \in DOMAIN nodes
        /\ \A n \in last'.call.offset \div BLOCK_SIZE ..
                     (last'.call.offset + last'.call.len) \div BLOCK_SIZE :
               DataSlots(last'.call.ino) = 0
               \/ n \notin DOMAIN storage.nodes[nodes[last'.call.ino].index_block].block)
       => last'.reply = [kind |-> "written", size |-> last'.call.len]]_vars

\* The step leaves the node table, the storage and the two counters as they were
AdapterUnchanged ==
    UNCHANGED <<nodes, next_node, storage, next_file_handle>>

C24_WitnessOthers ==
    /\ Called("copy_file_range") /\ last.reply = Error("ENOSYS")
    /\ FIRST_NODE \in DOMAIN nodes /\ storage.nodes # NoBlocks

\* The step is one of the upcalls ops and names an inode that is not in the
\* node table
AbsentInode(ops) ==
    /\ "call" \in DOMAIN last' /\ last'.call.op \in ops
    /\ last'.call.ino \notin DOMAIN nodes

\* C25: every upcall that names an inode absent from the file system (lookup,
\* mkdir or mknod with an absent parent; getattr, setattr, open, read, write
\* or readdir with an absent ino) completes with a NotFound reply and leaves
\* the state unchanged; none ends without a reply or aborts the process.
C25_AbsentInodeNotFound ==
    [][AbsentInode({"lookup", "mkdir", "mknod", "getattr", "setattr", "open", "read",
                    "write", "readdir"}) =>
          last'.reply = Error("ENOENT") /\ st' = "run" /\ AdapterUnchanged]_vars

\* The same for lookup, mkdir, mknod, getattr and readdir alone
C25_AbsentInodeNotFoundWhereChecked ==
    [][AbsentInode({"lookup", "mkdir", "mknod", "getattr", "readdir"}) =>
          last'.reply = Error("ENOENT") /\ st' = "run" /\ AdapterUnchanged]_vars

\* What the other four do with an absent inode: setattr sends no reply, open
\* replies EINVAL, read and write panic
C25_AbsentInodeOtherwise ==
    [][AbsentInode({"setattr", "open", "read", "write"}) =>
          /\ last'.call.op = "setattr" => last'.reply.kind = "none" /\ st' = "run"
          /\ last'.call.op = "open" => last'.reply = Error("EINVAL") /\ st' = "run"
          /\ last'.call.op \in {"read", "write"} => st' = "panic"]_vars

---------------------------------------------------------------------------
(* add_directory_entry                                                      *)

\* The entries of the DirectoryBlocks of the chain ch, block by block
ChainEntries(c, ch) ==
    [i \in 1 .. Len(ch) |-> retrieve_directory_block(c, ch[i]).c.blocks[ch[i]].b.entries]

\* The chain of directory d had the blocks ch with the entries es; after the
\* step it has the entry e added as add_entry adds it: in a new block when the
\* chain was empty or full, else at the end of the first block with room
AddedOneEntry(d, e) ==
    LET ch == Chain(Cur, blocks[d].b.more_data, {})
        es == ChainEntries(Cur, ch)
        ch2 == Chain(Cur', blocks'[d].b.more_data, {})
        es2 == ChainEntries(Cur', ch2)
        room == {i \in 1 .. Len(ch) : Len(es[i]) < MAX_ENTRIES}
    IN  /\ ch # <<0>> /\ ch2 # <<0>>
        /\ \A i \in 1 .. Len(ch2) : Len(es2[i]) <= MAX_ENTRIES
        /\ IF room # {}
           THEN /\ ch2 = ch
                /\ es2 = [es EXCEPT ![Min(room)] = Append(@, e)]
           ELSE /\ Len(ch2) = Len(ch) + 1
                /\ SubSeq(ch2, 1, Len(ch)) = ch
                /\ ch2[Len(ch2)] \notin DOMAIN blocks
                /\ es2 = Append(es, <<e>>)

\* C26: add_entry(parent, name, child) on an existing directory adds exactly
\* one entry (child, name): in a new DirectoryBlock that becomes more_data when
\* the chain is empty, else at the end of the first block of the chain with
\* fewer than MAX_ENTRIES entries, else in a new DirectoryBlock linked as next
\* of the tail; no block holds more than MAX_ENTRIES entries and every earlier
\* entry keeps its block and position.  Checked for the entry that mknod and
\* mkdir add to the parent directory.
C26_AddEntryAddsOne ==
    [][(/\ st = "run" /\ st' = "run" /\ last'.op \in {"mknod", "mkdir"} /\ last'.some
        /\ last'.parent \in Inodes(Cur, {"Directory"})
        /\ steps'.mk = steps.mk + 1)
       => AddedOneEntry(last'.parent, [ino |-> last'.ino, name |-> Name_a])]_vars

---------------------------------------------------------------------------
(* The block encodings as pure functions: a block is drawn, written with    *)
(* write_*_block and read back with read_*_block of the same block number   *)

MaxNameLen == 247
SampleNext == 77
SampleIno == 70000
SampleMore == 300

\* A name that fills a slot up to its terminating NUL
LongName == [i \in 1 .. MaxNameLen |-> 97]

\* DirectoryBlocks of 0 .. MAX_ENTRIES entries
DirectorySamples ==
    {[kind |-> "DirectoryBlock",
      b |-> [entries |-> [i \in 1 .. k |-> [ino |-> 9 + i, name |-> nm]],
             next |-> nx]] :
        k \in 0 .. MAX_ENTRIES, nm \in {Name_a, LongName}, nx \in {0, SampleNext}}

\* EntryBlocks of every file type, with times that have a part below the
\* millisecond and times that have none
EntrySamples ==
    {[kind |-> "EntryBlock",
      b |-> [EntryBlock_new(Name_a, ino, kind, tag, t) EXCEPT
                !.more_data = more,
                !.attr.size = 5000, !.attr.blocks = 3,
                !.attr.mtime = t + 1000000, !.attr.ctime = t + 2000000,
                !.attr.crtime = t + 3000000,
                !.attr.rdev = 7, !.attr.flags = 9]] :
        ino \in {INO_ROOT, SampleIno},
        kind \in {"NamedPipe", "CharDevice", "BlockDevice", "Directory",
                  "RegularFile", "Symlink", "Socket"},
        tag \in BOOLEAN, t \in {999999, Tick, 2 * Tick},
        more \in {0, SampleMore}}

InitCodec ==
    /\ st = "run" /\ bitmap = <<>> /\ tags = <<>> /\ blocks = NoBlocks
    /\ disk = NoBlocks /\ allocs = <<>>
    /\ now = Tick
    /\ fsSize = 0
    /\ last \in {[op |-> "block", ab |-> ab] : ab \in DirectorySamples \cup EntrySamples}
    /\ snap = NoBlocks
    /\ wrote = NoBlocks
    /\ steps = [mk |-> 0, md |-> 0, wr |-> 0, fl |-> 0, al |-> 0]
    /\ NoAdapter

\* block_io.rs:234-269, 292-317: the 2048 bytes that go to the block
EncodeBlock ==
    /\ st = "run" /\ last.op = "block"
    /\ \E w \in {io_write_block(last.ab)} :
          /\ st' = IF w.ok THEN "run" ELSE "panic"
          /\ last' = IF w.ok THEN [op |-> "written", ab |-> last.ab, data |-> w.data]
                     ELSE [op |-> "encode", ab |-> last.ab]
    /\ UNCHANGED <<bitmap, tags, blocks, disk, now, fsSize, allocs, snap, wrote, steps,
                   nodes, next_node, storage, next_file_handle>>

\* block_io.rs:330-366, 393-429: the block read from those bytes
DecodeBlock ==
    /\ st = "run" /\ last.op = "written"
    /\ \E r \in {IF last.ab.kind = "EntryBlock" THEN read_entry_block(last.data)
                 ELSE read_directory_block(last.data)} :
          /\ st' = IF r.ok THEN "run" ELSE "panic"
          /\ last' = IF r.ok THEN [op |-> "read", ab |-> last.ab, out |-> r.b]
                     ELSE [op |-> "decode", ab |-> last.ab]
    /\ UNCHANGED <<bitmap, tags, blocks, disk, now, fsSize, allocs, snap, wrote, steps,
                   nodes, next_node, storage, next_file_handle>>

NextCodec ==
    \/ EncodeBlock
    \/ DecodeBlock

SpecCodec == InitCodec /\ [][NextCodec]_vars

\* C27: a DirectoryBlock of k entries, 0 <= k <= MAX_ENTRIES, with names that
\* fit a slot and any next, written with write_directory_block and read with
\* read_directory_block, comes back with the same entries in the same order
\* and the same next: the write and the read both return, and the block read
\* is the block written.
C27_DirectoryBlockRoundTrip ==
    [][(st = "run" /\ last.ab.kind = "DirectoryBlock" /\ last.op \in {"block", "written"})
       => /\ st' = "run"
          /\ last'.op = "read" => last'.out = last.ab.b]_vars

\* The same for the blocks with fewer than MAX_ENTRIES entries
C27_RoundTripBelowFull ==
    [][(/\ st = "run" /\ last.ab.kind = "DirectoryBlock" /\ last.op \in {"block", "written"}
        /\ Len(last.ab.b.entries) < MAX_ENTRIES)
       => /\ st' = "run"
          /\ last'.op = "read" => last'.out = last.ab.b]_vars

\* A time with its part below the millisecond removed
TruncatedToMillis(t) == t - (t % 1000000)

C28_EntryBlockNoPanic ==
    last.op \in {"block", "written", "read"} /\ last.ab.kind = "EntryBlock" => st = "run"

---------------------------------------------------------------------------
(* write at several offsets                                                 *)

MidOffset == 100
MidLen == 2000
FarBack == 5000

\* path_tag_fs.rs:295-317 with a negative offset, in a build with overflow
\* checks or without them
WriteNegative(inode, offset, len) ==
    /\ st = "run" /\ fsSize # 0 /\ offset < 0
    /\ steps.wr < MaxWrites
    /\ \E overflow_checks \in BOOLEAN :
          Commit(write_negative(Cur, inode, offset, Payload(len, 7 + 16 * steps.wr),
                                overflow_checks))
    /\ last' = [op |-> "write", inode |-> inode, offset |-> offset, len |-> len]
    /\ now' = now + Tick
    /\ steps' = [steps EXCEPT !.wr = @ + 1]
    /\ UNCHANGED <<fsSize, snap, wrote, nodes, next_node, storage, next_file_handle>>

NextWrite ==
    \/ Mknod(INO_ROOT, Name_a, "RegularFile")
    \/ \E i \in Smallest(Inodes(Cur, {"RegularFile"}), MaxTargets),
          o \in {0, MidOffset, BLOCK_SIZE},
          len \in {ShortLen, MidLen, BLOCK_SIZE, LongLen} : Write(i, o, len)
    \/ \E i \in Smallest(Inodes(Cur, {"RegularFile"}), MaxTargets),
          o \in {-1, -FarBack} : WriteNegative(i, o, ShortLen)

SpecWrite == InitAlloc /\ [][NextWrite]_vars

\* The step is a write(inode, offset, data) to a regular file that exists
WriteStep ==
    /\ st = "run" /\ last'.op = "write" /\ steps'.wr = steps.wr + 1
    /\ last'.inode \in Inodes(Cur, {"RegularFile"})
    /\ last'.offset >= 0

\* The block numbers that allocate_block handed out during the step
NewBlocks == SubSeq(allocs', Len(allocs) + 1, Len(allocs'))

\* What C29 says of the state after the write
WriteReplacesBody ==
    LET i == last'.inode
        ib == blocks'[i].b.more_data
    IN  /\ ib = allocs'[Len(allocs')] /\ ib \notin Allocated /\ ~BitSet(bitmap, ib)
        /\ ib \in DOMAIN blocks'
        /\ blocks'[ib].kind = "IndexBlock" /\ blocks'[ib].b.next = 0
        /\ blocks'[i].b.attr.size = last'.len
        /\ \A j \in Inodes(Cur, {"RegularFile", "Directory"}) \ {i} :
              /\ j \in Inodes(Cur', {"RegularFile", "Directory"})
              /\ blocks'[j].b.more_data = blocks[j].b.more_data
              /\ blocks'[j].b.attr.size = blocks[j].b.attr.size

\* C29: after write(inode, offset, data) with offset >= 0 the inode's more_data
\* is the number of a newly allocated IndexBlock whose next is 0 and its
\* attr.size is len(data), whatever the offset and whatever the file held
\* before; more_data and size of every other inode are unchanged.
C29_WriteReplacesBody ==
    [][WriteStep => (st' = "run" /\ WriteReplacesBody)]_vars

\* The same for the writes that return and were handed no block number 0
C29_WriteReplacesBodyWhenDone ==
    [][(/\ WriteStep /\ st' = "run"
        /\ \A k \in 1 .. Len(NewBlocks) : NewBlocks[k] # 0) => WriteReplacesBody]_vars

\* The write of the step allocated end - start + 1 data blocks and then one
\* index block that lists them in its first slots, in order
AllocatesBlocks(start, end) ==
    LET k == end - start + 1
        new == NewBlocks
    IN  /\ Len(new) = k + 1
        /\ \A i \in 1 .. k : new[i] \in DOMAIN blocks' /\ blocks'[new[i]].kind = "DataBlock"
        /\ new[k + 1] \in DOMAIN blocks' /\ blocks'[new[k + 1]].kind = "IndexBlock"
        /\ blocks'[new[k + 1]].b.block = Arr(0 .. k - 1, LAMBDA n : new[n + 1])

\* C30: write(inode, offset, data) with len(data) >= 1 allocates exactly
\* end - start + 1 data blocks, start = offset / BLOCK_SIZE and
\* end = (offset + len(data) - 1) / BLOCK_SIZE, and one index block whose slots
\* 0 .. end - start hold their numbers in order and whose other slots are 0;
\* a write of BLOCK_SIZE bytes at offset 0 allocates one data block.
C30_AllocatesEndMinusStartPlusOne ==
    [][(WriteStep /\ st' = "run" /\ last'.len >= 1)
       => AllocatesBlocks(last'.offset \div BLOCK_SIZE,
                          (last'.offset + last'.len - 1) \div BLOCK_SIZE)]_vars

\* What the writes that return and were handed no block number 0 allocate
C30_AllocatesUpToOffsetPlusLen ==
    [][(/\ WriteStep /\ st' = "run" /\ last'.len >= 1
        /\ \A k \in 1 .. Len(NewBlocks) : NewBlocks[k] # 0)
       => AllocatesBlocks(last'.offset \div BLOCK_SIZE,
                          (last'.offset + last'.len) \div BLOCK_SIZE)]_vars

\* C31: write(inode, offset, data) with offset < 0 fails and changes nothing:
\* no block is allocated, and the bitmap, the cache and more_data and size of
\* the inode are as before.  The engine's write returns no value, so the
\* failure could only show as a state that is left alone.
C31_NegativeOffsetChangesNothing ==
    [][(/\ st = "run" /\ last'.op = "write" /\ steps'.wr = steps.wr + 1
        /\ last'.offset < 0)
       => /\ st' = "run"
          /\ allocs' = allocs /\ bitmap' = bitmap /\ blocks' = blocks
          /\ disk' = disk]_vars

---------------------------------------------------------------------------
(* mkdir in the directories that mkdir made                                 *)

MaxDirs == 3

\* The directories made so far, in the order of the calls
Made == IF "made" \in DOMAIN last THEN last.made ELSE <<>>

\* path_tag_fs.rs:373-398
MkdirNamed(parent, name) ==
    /\ st = "run" /\ fsSize # 0
    /\ steps.md < MaxDirs
    /\ LET r == mkdir(Cur, parent, name, now)
       IN  /\ Commit(r.c)
           /\ last' = [op |-> "mkdir", parent |-> parent, name |-> name,
                       some |-> r.some, ino |-> r.ino,
                       made |-> IF r.some
                                THEN Append(Made, [parent |-> parent, name |-> name,
                                                   ino |-> r.ino])
                                ELSE Made]
    /\ now' = now + Tick
    /\ steps' = [steps EXCEPT !.mk = @ + 1, !.md = @ + 1]
    /\ UNCHANGED <<fsSize, snap, wrote, nodes, next_node, storage, next_file_handle>>

\* Block numbers that hold no EntryBlock: a resident DirectoryBlock, the
\* first bitmap block, and a block that was never written
UnwrittenBlock == 3000
NoEntryBlocks ==
    Smallest({b \in DOMAIN blocks : blocks[b].kind = "DirectoryBlock"}, 1)
    \cup {3, UnwrittenBlock}

NextDirs ==
    \/ \E p \in {INO_ROOT} \cup {Made[i].ino : i \in 1 .. Len(Made)},
          n \in {Name_a, Name_b} : MkdirNamed(p, n)
    \/ \E p \in NoEntryBlocks : MkdirNamed(p, Name_a)
    \/ \E p \in NoEntryBlocks : steps.mk < MaxDirs /\ Mknod(p, Name_a, "RegularFile")

SpecDirs == InitAlloc /\ [][NextDirs]_vars

\* What list_children_names(d) returns
Listing(c, d) == list_children_names(c, d).result

\* The step is a mkdir(p, n) in a directory that exists, and it made directory c
MkdirStep ==
    /\ st = "run" /\ last'.op = "mkdir" /\ steps'.md = steps.md + 1
    /\ last'.parent \in Inodes(Cur, {"Directory"}) /\ last'.some

\* The new directory lists "." and "..", the parent gained the one entry
MkdirListsDots ==
    /\ st' = "run"
    /\ Listing(Cur', last'.ino) = <<[ino |-> last'.ino, name |-> <<46>>],
                                    [ino |-> last'.parent, name |-> <<46, 46>>]>>
    /\ Listing(Cur', last'.parent) =
          Append(Listing(Cur, last'.parent), [ino |-> last'.ino, name |-> last'.name])

\* Every directory that mkdir made lists ".", ".." and then the names of the
\* directories made in it, in the order of the calls
MadeListInOrder ==
    \A i \in 1 .. Len(Made) :
       LET ls == Listing(Cur, Made[i].ino)
           in_it == SelectSeq(Made, LAMBDA m : m.parent = Made[i].ino)
       IN  [k \in 1 .. Len(ls) |-> ls[k].name] =
              <<<<46>>, <<46, 46>>>> \o [k \in 1 .. Len(in_it) |-> in_it[k].name]

\* C32: after mkdir(p, n) made directory c, list_children(c) is "." -> c and
\* ".." -> p in that order and p gained exactly the entry n -> c; after
\* mkdir(c, a) and then mkdir(c, b), list_children(c) yields ".", "..", a, b
\* in that order.
C32_MkdirListing ==
    /\ [][MkdirStep => MkdirListsDots]_vars
    /\ [](st = "run" => MadeListInOrder)

\* The same while allocate_block has handed out no block number 0
C32_MkdirListingWhileBlocksFree ==
    /\ [][(MkdirStep /\ \A i \in 1 .. Len(allocs') : allocs'[i] # 0) => MkdirListsDots]_vars
    /\ []((st = "run" /\ \A i \in 1 .. Len(allocs) : allocs[i] # 0) => MadeListInOrder)

\* mkdir(1, "a") made c, then mkdir(c, "a") and mkdir(c, "b") were called
C32_Witness ==
    /\ st = "run" /\ Len(Made) = 3
    /\ \A i \in 1 .. Len(allocs) : allocs[i] # 0
    /\ Made[1].parent = INO_ROOT
    /\ Made[2] = [parent |-> Made[1].ino, name |-> Name_a, ino |-> Made[2].ino]
    /\ Made[3] = [parent |-> Made[1].ino, name |-> Name_b, ino |-> Made[3].ino]
    /\ Len(Listing(Cur, Made[1].ino)) = 4

\* The block number p holds an EntryBlock: the resident block is one, or
\* the image at p has the header of one
HoldsEntryBlock(p) ==
    IF p \in DOMAIN blocks THEN blocks[p].kind = "EntryBlock"
    ELSE read_entry_block(DiskAt(disk, p)).ok

\* The step is a mkdir or mknod whose parent holds no EntryBlock
OrphanStep ==
    /\ st = "run" /\ last'.op \in {"mkdir", "mknod"} /\ steps'.mk = steps.mk + 1
    /\ ~HoldsEntryBlock(last'.parent)

\* The call returned no attributes and left the cache as it was
RefusedUnchanged ==
    /\ st' = "run" /\ ~last'.some
    /\ allocs' = allocs /\ bitmap' = bitmap /\ blocks' = blocks /\ disk' = disk

\* C33: mkdir(parent, name) and mknod(parent, name, kind) with a parent block
\* number that holds no EntryBlock return no attributes and allocate no
\* block: the bitmap, the resident blocks and every directory are unchanged.
C33_NoEntryParentRefused ==
    [][OrphanStep => RefusedUnchanged]_vars

\* The same for a parent that is resident as a block of another kind
C33_ResidentNoEntryParentRefused ==
    [][(OrphanStep /\ last'.parent \in DOMAIN blocks) => RefusedUnchanged]_vars

---------------------------------------------------------------------------
(* setattr                                                                  *)

\* The step is a setattr(ino, fields) on an inode of the table
SetattrStep ==
    /\ st = "run" /\ last'.call.op = "setattr" /\ now' = now + Tick
    /\ last'.call.ino \in DOMAIN nodes

\* The attribute that the setattr field f names
AttrOf(f) == IF f = "mode" THEN "perm" ELSE f

\* The attributes of the inode after the step are a, changed in the fields
\* named in set, with mtime = now when size is among them
AttrsSet(set) ==
    LET ino == last'.call.ino
        f == last'.call.fields
        a == nodes[ino].attr
        a2 == nodes'[ino].attr
    IN  /\ st' = "run"
        /\ \A k \in DOMAIN a :
              a2[k] = IF \E g \in set \cap DOMAIN f : AttrOf(g) = k
                      THEN f[CHOOSE g \in set \cap DOMAIN f : AttrOf(g) = k]
                      ELSE IF k = "mtime" /\ "size" \in DOMAIN f THEN now
                      ELSE a[k]
        /\ last'.reply = [kind |-> "attr", attr |-> a2]
        /\ Filesystem_getattr(Fs', ino).reply.attr = a2
        /\ nodes'[ino].index_block = nodes[ino].index_block
        /\ storage' = storage

\* C34: setattr(ino, fields) on an existing inode sets each supplied field
\* among size, mode, uid, gid and flags in the stored attributes, as a getattr
\* that follows shows; mtime is updated exactly when size is supplied, every
\* field that was not supplied is unchanged, and the index and data blocks of
\* the file are unchanged.
C34_SetattrSetsSuppliedFields ==
    [][SetattrStep => AttrsSet({"size", "mode", "uid", "gid", "flags"})]_vars

\* What setattr does: of the supplied fields it sets size alone
C34_SetattrSetsSize ==
    [][SetattrStep => AttrsSet({"size"})]_vars

---------------------------------------------------------------------------
(* Walks along the chains: list_children, find_child and read               *)

MaxWalkNodes == 2

\* path_tag_fs.rs:225-236
ListChildren(d) ==
    /\ st = "run" /\ fsSize # 0
    /\ \E r \in {list_children(Cur, d)} :
          /\ Commit(r.c)
          /\ last' = [op |-> "list", inode |-> d, result |-> r.result]
    /\ UNCHANGED <<now, fsSize, snap, wrote, steps,
                   nodes, next_node, storage, next_file_handle>>

\* path_tag_fs.rs:131-163
FindChild(d, name) ==
    /\ st = "run" /\ fsSize # 0
    /\ \E r \in {find_child(Cur, d, name)} :
          /\ Commit(r.c)
          /\ last' = [op |-> "find", inode |-> d, some |-> r.some, ino |-> r.ino]
    /\ UNCHANGED <<now, fsSize, snap, wrote, steps,
                   nodes, next_node, storage, next_file_handle>>

\* path_tag_fs.rs:237-292: read(more_data of the inode, offset, size); list is
\* the block numbers that the walk along the index chain collected
ReadAt(inode, offset, size) ==
    /\ st = "run" /\ fsSize # 0
    /\ \E head \in {blocks[inode].b.more_data} :
       \E r \in {read(Cur, head, offset, size)} :
          /\ Commit(r.c)
          /\ last' = [op |-> "read", inode |-> inode, offset |-> offset, len |-> size,
                      list |-> IndexWalk(Cur, head, offset \div BLOCK_SIZE,
                                         (offset + size) \div BLOCK_SIZE, <<>>).list,
                      out |-> r.out]
    /\ UNCHANGED <<now, fsSize, snap, wrote, steps,
                   nodes, next_node, storage, next_file_handle>>

\* The root and the first regular file
WalkInodes == {INO_ROOT} \cup Smallest(Inodes(Cur, {"RegularFile"}), MaxTargets)

NextWalk ==
    \/ steps.mk < MaxWalkNodes /\ Mknod(INO_ROOT, Name_a, "RegularFile")
    \/ \E i \in Smallest(Inodes(Cur, {"RegularFile"}), MaxTargets),
          o \in {0, BLOCK_SIZE}, len \in {ShortLen, LongLen} : Write(i, o, len)
    \/ \E d \in WalkInodes : ListChildren(d)
    \/ \E d \in WalkInodes : FindChild(d, Name_a)
    \/ \E i \in Smallest(Inodes(Cur, {"RegularFile"}), MaxTargets),
          o \in {0, BLOCK_SIZE} : ReadAt(i, o, ShortLen)

SpecWalk == InitAlloc /\ [][NextWalk]_vars

\* C35: find_child(d, n) and list_children(d) terminate for every inode d,
\* whatever the kind of the blocks that the chain of d names: a block that
\* cannot be retrieved as a DirectoryBlock ends the walk, it is not asked for
\* again and again.
C35_WalksTerminate ==
    [][(st = "run" /\ last'.op \in {"list", "find"}) => st' # "hang"]_vars

\* The same for the walks that start at a directory
C35_DirectoryWalksTerminate ==
    [][(/\ st = "run" /\ last'.op \in {"list", "find"}
        /\ last'.inode \in Inodes(Cur, {"Directory"})
        /\ \A i \in 1 .. Len(allocs) : allocs[i] # 0) => st' # "hang"]_vars

\* C37: read(index_head, offset, size) with offset >= 0 never retrieves block
\* number 0 as a data block: every block whose bytes it appends is a non-zero
\* slot of the index chain of the file, also when the range covers slots that
\* the last write did not fill.
C37_ReadSkipsBlockZero ==
    (last.op = "read" /\ "list" \in DOMAIN last) =>
        /\ \A k \in 1 .. Len(last.list) : last.list[k] # 0
        /\ 0 \in DOMAIN blocks => blocks[0].kind # "DataBlock"

\* The same for the reads at offset 0 of a file that was written at offset 0
\* with at least as many bytes
C37_ReadFromStartSkipsBlockZero ==
    [][(/\ st = "run" /\ last.op = "write" /\ last.offset = 0
        /\ last'.op = "read" /\ "list" \in DOMAIN last'
        /\ last'.inode = last.inode /\ last'.offset = 0 /\ last'.len <= last.len
        /\ \A i \in 1 .. Len(allocs) : allocs[i] # 0)
       => \A k \in 1 .. Len(last'.list) : last'.list[k] # 0]_vars

---------------------------------------------------------------------------
(* The source offsets of write_data_blocks                                  *)

\* The rounds n of the loop of write_data_blocks, path_tag_fs.rs:323-326
Rounds(offset, len) == offset \div BLOCK_SIZE .. (offset + len) \div BLOCK_SIZE

\* C36: for every offset >= 0 and every data of at least one byte that needs
\* no more data blocks than an index block has slots, write completes without
\* underflow and without slicing out of range: for every n in [start, end] the
\* source offset (n - start) * BLOCK_SIZE is at most len(data), also when
\* offset is not a multiple of BLOCK_SIZE.
C36_SourceOffsetsWithinData ==
    [][(WriteStep /\ last'.len >= 1)
       => /\ \A n \in Rounds(last'.offset, last'.len) :
                (n - last'.offset \div BLOCK_SIZE) * BLOCK_SIZE <= last'.len
          /\ st' = "run"]_vars

\* The same for the offsets that are multiples of BLOCK_SIZE, while
\* allocate_block has handed out no block number 0
C36_AlignedWritesComplete ==
    [][(/\ WriteStep /\ last'.len >= 1 /\ last'.offset % BLOCK_SIZE = 0
        /\ \A k \in 1 .. Len(NewBlocks) : NewBlocks[k] # 0)
       => /\ \A n \in Rounds(last'.offset, last'.len) :
                (n - last'.offset \div BLOCK_SIZE) * BLOCK_SIZE <= last'.len
          /\ st' = "run"]_vars

---------------------------------------------------------------------------
(* flush and open of images of two sizes                                    *)

\* An image of 255 * 16384 blocks: size_filesystem makes 256 bitmap blocks
BigSize == 4177920
MaxReopenAllocs == 6

\* block_cache.rs:45-76: a fresh BlockCache over the image that flush() left,
\* then open(); allocs goes on as the record of the numbers handed out
CacheReopen ==
    /\ CacheStep
    /\ last.op = "flush"
    /\ Commit(open(BlockCache_new(disk, allocs)))
    /\ last' = [op |-> "open"]
    /\ UNCHANGED <<fsSize, wrote>>

NextReopen ==
    \/ \E size \in {SmallSize, LargeSize, BigSize} : SizeFilesystem(size)
    \/ steps.al < MaxReopenAllocs /\ Allocate
    \/ fsSize # 0 /\ CacheFlush
    \/ CacheReopen

SpecReopen == InitCache /\ [][NextReopen]_vars

\* The number of tag-root blocks that the fs-info block of the image records
RecordedTags == Byte(DiskAt(disk, FSINFO_BLOCK), 5)

\* The step is an open() on a fresh cache after a flush()
ReopenStep == st = "run" /\ last.op = "flush" /\ last'.op = "open"

\* The bitmap and the tag roots are loaded as they were flushed
LoadedAsFlushed ==
    /\ st' = "run"
    /\ bitmap' = bitmap
    /\ Len(tags') = RecordedTags

\* No block number was handed out twice
NoNumberTwice == \A i, j \in 1 .. Len(allocs) : allocs[i] = allocs[j] => i = j

\* C38: after flush() and then open() on a fresh BlockCache over the same
\* image the bitmap loaded is the bitmap before the flush, with the same
\* number of blocks and the same bits, and as many tag-root blocks are loaded
\* as the fs-info block records; allocate_block after the open never returns
\* a block number that was allocated before the flush.
C38_ReopenKeepsBitmap ==
    /\ [][ReopenStep => LoadedAsFlushed]_vars
    /\ [](st = "run" => NoNumberTwice)

\* The same for the images whose bitmap has fewer than 256 blocks
C38_SmallReopenKeepsBitmap ==
    /\ [][(ReopenStep /\ Len(bitmap) < 256) => LoadedAsFlushed]_vars
    /\ []((st = "run" /\ fsSize # BigSize) => NoNumberTwice)

====
